---- MODULE Spec2Model ----
(***************************************************************************)
(* Session and resource lifecycle manager of the CloakBrowser API          *)
(* (src/api/session_manager.py and the routers that call it).              *)
(*                                                                         *)
(* The server runs on one asyncio event loop: a coroutine runs without     *)
(* interruption until it awaits something that really suspends (a driver   *)
(* call, sleep).  asyncio.Lock.acquire() does not suspend when the lock is *)
(* free, and no `async with self._lock` body of the manager awaits, so the *)
(* lock is never contended and each locked section runs inside one step.   *)
(* Every action below is one such run between two suspension points.       *)
(*                                                                         *)
(* Each HTTP request is its own task: Requests are one-shot, numbered in   *)
(* arrival order.  Thread 0 is the cleanup task (_cleanup_loop), the last  *)
(* thread is the lifespan task, which runs close_all at shutdown.          *)
(* uuid4 identifiers are modelled as fresh: the next unused number.        *)
(***************************************************************************)
EXTENDS Integers, Sequences, FiniteSets, TLC

\* ---------------------------------------------------------------- bounds
max_sessions == 2
session_ttl == 1
MaxRequests == 3
MaxPages == 2
MaxTime == 2
MaxDelta == 1
MaxKeys == 2
MaxCalls == 3
MaxStarts == 3
MaxScans == 2
MaxValues == 2
MaxReleases == 3

Reaper == 0
Requests == 1..MaxRequests
Main == MaxRequests + 1
Threads == 0..(MaxRequests + 1)
SessionIds == 1..(MaxRequests + 1)
PageIds == 1..MaxPages

VARIABLES
    phase,        \* lifespan: "startup" | "serving" | "shutdown" | "stopped"
    limit,        \* SessionManager.max_sessions, as configured
    ttl,          \* SessionManager.session_ttl, as configured
    lock,         \* SessionManager._lock: the task that holds it, or Free
    ensure_calls, \* ensure_binary() calls made for each create request
    launch_calls, \* chromium.launch() calls made for each create request
    listing,      \* what list_sessions returned to each request
    held_at_provision, \* requests that called ensure_binary() holding the lock
    environ,      \* os.environ: the CLOAKBROWSER_* variables
    cache,        \* the files of get_cache_dir()
    ret,          \* what get_effective_version / _should_check_for_update returned
    _sessions,    \* SessionManager._sessions with truncated uuid4 keys: key -> object
    creating,     \* create_session calls: where each is and the id it drew
    _pages,       \* BrowserSession._pages with truncated uuid4 keys: key -> handle
    paging,       \* new_page calls on that session: where each is
    cleanup_tasks, \* the tasks start_cleanup_task created
    _cleanup_task, \* SessionManager._cleanup_task: the task it refers to
    shut,         \* close_all has run
    page,         \* a live page handle: its url and title
    info,         \* the PageInfo of that page and SessionInfo.last_used
    refreshing,   \* update_page_info calls on that page: where each is
    wall,         \* time.time() for those calls
    response,     \* what the GitHub releases request gives
    session_ids,  \* close_all: session_ids
    si_idx,       \* close_all: position in session_ids
    now,          \* time.time()
    sessions,     \* SessionManager._sessions: its keys, in insertion order
    created_at,   \* SessionInfo.created_at (-1: no such object yet)
    last_used,    \* SessionInfo.last_used
    pw,           \* BrowserSession._pw is set
    browser,      \* BrowserSession._browser is set
    context,      \* BrowserSession._context is set
    pages,        \* BrowserSession._pages: its keys
    info_pages,   \* SessionInfo.pages: its keys
    page_count,   \* page ids handed out in the session so far
    close_calls,  \* how many times BrowserSession.close() was called
    pc,           \* where each task is suspended
    op,           \* the request each task serves
    sid,          \* session_id of the task
    pid,          \* page_id of the task
    error,        \* what the request's handler raised / returned
    status,       \* HTTP status sent
    snap,         \* close(): list(self._pages.values())
    step,         \* close(): the teardown call being awaited
    attempted,    \* close(): teardown calls made so far
    failed,       \* close(): teardown calls that raised
    to_close,     \* _cleanup_idle_sessions: to_close
    tc_idx,       \* _cleanup_idle_sessions: position in to_close
    rnow,         \* _cleanup_idle_sessions: now
    scanned       \* _cleanup_idle_sessions: the sessions the scan iterated over

vars == <<phase, limit, ttl, lock, ensure_calls, launch_calls, listing,
          held_at_provision, environ, cache, ret,
          _sessions, creating, _pages, paging,
          cleanup_tasks, _cleanup_task, shut, page, info, refreshing, wall,
          response,
          session_ids, si_idx, now, sessions, created_at,
          last_used, pw, browser, context, pages, info_pages, page_count,
          close_calls, pc, op, sid, pid, error, status, snap, step, attempted, failed, to_close, tc_idx, rnow, scanned>>

lifespanVars == <<limit, ttl, session_ids, si_idx>>
hostVars == <<environ, cache, ret, response>>
loopVars == <<cleanup_tasks, _cleanup_task, shut>>
infoVars == <<page, info, refreshing, wall>>
keyVars == <<_sessions, creating, _pages, paging>>
callVars == <<ensure_calls, launch_calls>>
auxVars == <<lock, ensure_calls, launch_calls, listing, held_at_provision>>
sessionVars == <<created_at, last_used, pw, browser, context, pages, info_pages,
                 page_count>>
closeVars == <<snap, step, attempted, failed>>
reaperVars == <<to_close, tc_idx, rnow, scanned>>

\* ---------------------------------------------------------------- helpers
Range(s) == {s[i] : i \in 1..Len(s)}

Min(S) == CHOOSE x \in S : \A y \in S : x <= y

\* the session objects constructed so far
Allocated == {s \in SessionIds : created_at[s] # -1}

\* len(self._sessions) >= self.max_sessions
AtCapacityCountsFailed(reg) ==
    Len(reg) + Cardinality({q \in Requests :
                              /\ op[q] = "create"
                              /\ error[q] \in {"ProvisioningError", "LaunchFailed"}})
        >= limit
AtCapacity(reg) == Len(reg) >= limit

\* str(uuid.uuid4())[:12]: an id no session object has had
NewSessionIdReusesClosed == Min(SessionIds \ Range(sessions))
NewSessionId == Min({s \in SessionIds : created_at[s] = -1})

\* self._sessions[session_id] = session
RegistryInsert(reg, s) == IF s \in Range(reg) THEN reg ELSE Append(reg, s)

\* self._sessions.pop(session_id, None): the mapping afterwards
PopKeepsEntry(reg, s) == reg
RegistryPop(reg, s) == SelectSeq(reg, LAMBDA x : x # s)

\* SessionManager._lock when no task holds it
Free == -1

\* leaving an `async with self._lock` block: who holds the lock afterwards
KeepLock(th) == th
Unlock(th) == Free

\* start_cleanup_task: if self.session_ttl > 0
ReapingEnabledAlways(t) == TRUE
ReapingEnabled(t) == t > 0

\* SessionManager.get_session: session_id in self._sessions
HasSessionEverCreated(reg, s) == created_at[s] # -1
HasSession(reg, s) == s \in Range(reg)

\* BrowserSession.get_page: page_id in self._pages
HasPageAlways(ps, p) == TRUE
HasPage(ps, p) == p \in ps

\* del self._pages[page_id]
RemovePageKeepsIt(ps, p) == ps
RemovePage(ps, p) == ps \ {p}

\* self.info.pages.pop(page_id, None)
PopRecordKeepsIt(recs, p) == recs
PopRecord(recs, p) == recs \ {p}

\* self.info.last_used = time.time()
TouchResetsClock(lu, s, t) == [lu EXCEPT ![s] = 0]
Touch(lu, s, t) == [lu EXCEPT ![s] = t]

\* what list_pages returns for a session: the ids of its page records
ListPagesResult(s) == info_pages[s]

\* the server is up: requests are accepted and the cleanup task runs
Running == phase \in {"serving", "shutdown"}

\* teardown calls of BrowserSession.close()
START == <<"start", 0>>
DONE == <<"done", 0>>
CTX == <<"context", 0>>
BROWSER == <<"browser", 0>>
PW == <<"pw", 0>>
PageStep(p) == <<"page", p>>
IsPage(st) == st[1] = "page"
Resources == {CTX, BROWSER, PW}

\* ------------------------------------- cloakbrowser.config / download
\* text is a sequence of tokens: a run of digits (its value), a dot,
\* white space, or any other character
Num(n) == <<"num", n>>
Dot == <<"dot", 0>>
Space == <<"space", 0>>
Other == <<"other", 0>>

\* config.CHROMIUM_VERSION = "142.0.7444.175"
CHROMIUM_VERSION == <<Num(142), Dot, Num(0), Dot, Num(7444), Dot, Num(175)>>

\* download.UPDATE_CHECK_INTERVAL
UPDATE_CHECK_INTERVAL == 3600

\* str.strip(): leading and trailing white space removed
RECURSIVE StripLeft(_)
StripLeft(s) == IF s # <<>> /\ Head(s) = Space THEN StripLeft(Tail(s)) ELSE s
RECURSIVE StripRight(_)
StripRight(s) ==
    IF s # <<>> /\ s[Len(s)] = Space
    THEN StripRight(SubSeq(s, 1, Len(s) - 1)) ELSE s
Strip(s) == StripRight(StripLeft(s))

\* str.split("."): the fields between the dots
RECURSIVE SplitDots(_, _)
SplitDots(s, field) ==
    IF s = <<>> THEN <<field>>
    ELSE IF Head(s) = Dot THEN <<field>> \o SplitDots(Tail(s), <<>>)
    ELSE SplitDots(Tail(s), Append(field, Head(s)))
Split(s) == SplitDots(s, <<>>)

\* int(x) / float(x): the argument may carry white space around one number;
\* anything else raises ValueError
Parses(x) == Len(Strip(x)) = 1 /\ Strip(x)[1][1] = "num"
Value(x) == Strip(x)[1][2]

\* _version_tuple raises ValueError for v
TupleRaises(v) == \E i \in 1..Len(Split(v)) : ~Parses(Split(v)[i])

\* tuple(int(x) for x in v.split("."))
_version_tuple(v) == [i \in 1..Len(Split(v)) |-> Value(Split(v)[i])]

\* Python's order of tuples: the first differing item decides, a proper
\* prefix is smaller
RECURSIVE TupleGreater(_, _)
TupleGreater(a, b) ==
    IF a = <<>> THEN FALSE
    ELSE IF b = <<>> THEN TRUE
    ELSE IF Head(a) # Head(b) THEN Head(a) > Head(b)
    ELSE TupleGreater(Tail(a), Tail(b))

\* _version_tuple(a) > _version_tuple(b), for arguments that parse
_version_newer_by_major(a, b) == _version_tuple(a)[1] > _version_tuple(b)[1]
_version_newer(a, b) == TupleGreater(_version_tuple(a), _version_tuple(b))

\* a file of the cache directory: missing, or read_text() raises OSError or
\* UnicodeDecodeError (a ValueError), or it has a text
Absent == [state |-> "absent", text |-> <<>>]
Unreadable == [state |-> "unreadable", text |-> <<>>]
File(text) == [state |-> "file", text |-> text]

\* get_effective_version(): the marker's version if it is newer than the
\* bundled one and its binary is in the cache, else CHROMIUM_VERSION
get_effective_version ==
    LET marker == cache.latest_version
        version == Strip(marker.text)
    IN  IF marker.state = "absent" THEN CHROMIUM_VERSION
        ELSE IF marker.state = "unreadable" THEN CHROMIUM_VERSION
        ELSE IF version = <<>> THEN CHROMIUM_VERSION
        ELSE IF TupleRaises(version) THEN CHROMIUM_VERSION
        ELSE IF _version_newer(version, CHROMIUM_VERSION)
                /\ version \in cache.binaries
             THEN version
        ELSE CHROMIUM_VERSION

\* an environment variable: unset, or set to a string of characters
Unset == [set |-> FALSE, val |-> <<>>]
Set(val) == [set |-> TRUE, val |-> val]

\* os.environ.get(name, default)
Getenv(name, default) == IF environ[name].set THEN environ[name].val ELSE default

\* str.lower()
LowerChar(c) ==
    CASE c = "F" -> "f"
      [] c = "A" -> "a"
      [] c = "L" -> "l"
      [] c = "S" -> "s"
      [] c = "E" -> "e"
      [] c = "T" -> "t"
      [] c = "R" -> "r"
      [] c = "U" -> "u"
      [] OTHER -> c
SameCase(s) == s
Lower(s) == [i \in 1..Len(s) |-> LowerChar(s[i])]

\* get_local_binary_override(): os.environ.get("CLOAKBROWSER_BINARY_PATH")
get_local_binary_override == Getenv("CLOAKBROWSER_BINARY_PATH", <<>>)

\* _should_check_for_update(); an empty string and None are both falsy
_should_check_for_update ==
    LET check_file == cache.last_update_check IN
    IF Lower(Getenv("CLOAKBROWSER_AUTO_UPDATE", <<>>)) = <<"f", "a", "l", "s", "e">>
    THEN FALSE
    ELSE IF get_local_binary_override # <<>> THEN FALSE
    ELSE IF Getenv("CLOAKBROWSER_DOWNLOAD_URL", <<>>) # <<>> THEN FALSE
    ELSE IF check_file.state = "absent" THEN TRUE
    ELSE IF check_file.state = "unreadable" THEN TRUE
    ELSE IF ~Parses(Strip(check_file.text)) THEN TRUE
    ELSE IF now - Value(Strip(check_file.text)) < UPDATE_CHECK_INTERVAL
    THEN FALSE
    ELSE TRUE

\* the request raised (httpx.get or raise_for_status), or none was made
NoResponse == [ok |-> FALSE, releases |-> <<>>]

\* nothing was returned yet
NoVersion == <<>>
NoAnswer == "none"

\* what _get_latest_chromium_version has returned: nothing yet, None, or a
\* text
NotReturned == [returned |-> FALSE, none |-> TRUE, text |-> <<>>]
ReturnedNone == [returned |-> TRUE, none |-> TRUE, text |-> <<>>]
Returned(txt) == [returned |-> TRUE, none |-> FALSE, text |-> txt]

\* the pieces of a release tag besides numbers and dots: "chromium-", "v"
Chromium == <<"chromium-", 0>>
V == <<"v", 0>>
TagPrefix == <<Chromium, V>>

\* tag.startswith(prefix)
StartsWith(tag, prefix) ==
    /\ Len(tag) >= Len(prefix)
    /\ SubSeq(tag, 1, Len(prefix)) = prefix

\* tag.removeprefix(prefix)
RemovePrefix(tag, prefix) ==
    IF StartsWith(tag, prefix)
    THEN SubSeq(tag, Len(prefix) + 1, Len(tag))
    ELSE tag

\* tag.startswith("chromium-v") and not release.get("draft")
EligibleIgnoringDraft(release) == StartsWith(release.tag, TagPrefix)
Eligible(release) ==
    StartsWith(release.tag, TagPrefix) /\ ~release.draft

\* _get_latest_chromium_version: the first eligible release of the answer,
\* its tag without the prefix; None when there is none or the request
\* raised
_get_latest_chromium_version ==
    IF ~response.ok THEN ReturnedNone
    ELSE LET hits == {i \in 1..Len(response.releases) :
                        Eligible(response.releases[i])}
         IN  IF hits = {} THEN ReturnedNone
             ELSE Returned(RemovePrefix(response.releases[Min(hits)].tag,
                                        TagPrefix))

\* a process that sets none of the variables and has an empty cache
HostDefault ==
    /\ environ = [n \in {"CLOAKBROWSER_AUTO_UPDATE", "CLOAKBROWSER_BINARY_PATH",
                        "CLOAKBROWSER_DOWNLOAD_URL"} |-> Unset]
    /\ cache = [latest_version |-> Absent, binaries |-> {},
                last_update_check |-> Absent]
    /\ ret = [version |-> NoVersion, check |-> NoAnswer, latest |-> NotReturned]
    /\ response = NoResponse

\* ------------------------------------------------ identifiers by uuid4
\* the values of str(uuid.uuid4())[:12] and of str(uuid.uuid4())[:8]
Keys == 1..MaxKeys

\* the create_session calls and the new_page calls; call c constructs
\* session object c, resp. page handle c
Calls == 1..MaxCalls

\* no entry under a key
NoObject == 0

\* in-flight call records
Idle == [at |-> "new", key |-> 0]
At(where, k) == [at |-> where, key |-> k]

\* dict[key] = value: an entry under the key is overwritten
Put(d, k, v) == [d EXCEPT ![k] = v]

\* dict.pop(key, None) / del dict[key]
Drop(d, k) == [d EXCEPT ![k] = NoObject]

\* len(dict)
Size(d) == Cardinality({k \in Keys : d[k] # NoObject})

\* an empty manager and an empty session, no call made yet
KeyDefault ==
    /\ _sessions = [k \in Keys |-> NoObject]
    /\ creating = [c \in Calls |-> Idle]
    /\ _pages = [k \in Keys |-> NoObject]
    /\ paging = [c \in Calls |-> Idle]

\* ------------------------------------------------- the cleanup tasks
\* the calls of start_cleanup_task; call k creates task k
Starts == 1..MaxStarts

\* self._cleanup_task = None
NoTask == 0

\* a cleanup task: not created, in sleep(60), in a pass of
\* _cleanup_idle_sessions, or cancelled; and the passes it has begun
Loop(where, n) == [at |-> where, scans |-> n]

\* --------------------------------------------- update_page_info on a page
\* the urls and titles of the model; 0 is the empty title of a new record
PageValues == 1..MaxValues

\* the title of the record after page.title() raised
TitleCleared(prev) == 0
TitleAfterFailure(prev) == prev

\* no task was created, nothing is shut down; one page, as new_page left
\* it: the record has the url of the handle and an empty title
SideDefault ==
    /\ cleanup_tasks = [k \in Starts |-> Loop("none", 0)]
    /\ _cleanup_task = NoTask
    /\ shut = FALSE
    /\ page = [url |-> 1, title |-> 1]
    /\ info = [url |-> 1, title |-> 0, last_used |-> 0]
    /\ refreshing = [c \in Calls |-> Idle]
    /\ wall = 0

\* the manager as constructed with max_sessions = m, before lifespan startup
ManagerInit(m, idle) ==
    /\ phase = "startup"
    /\ limit = m
    /\ ttl = idle
    /\ lock = Free
    /\ ensure_calls = [r \in Requests |-> 0]
    /\ launch_calls = [r \in Requests |-> 0]
    /\ listing = [r \in Requests |-> <<>>]
    /\ KeyDefault
    /\ SideDefault
    /\ held_at_provision = {}
    /\ session_ids = <<>>
    /\ si_idx = 0
    /\ sessions = <<>>
    /\ created_at = [s \in SessionIds |-> -1]
    /\ last_used = [s \in SessionIds |-> -1]
    /\ pw = [s \in SessionIds |-> FALSE]
    /\ browser = [s \in SessionIds |-> FALSE]
    /\ context = [s \in SessionIds |-> FALSE]
    /\ pages = [s \in SessionIds |-> {}]
    /\ info_pages = [s \in SessionIds |-> {}]
    /\ page_count = [s \in SessionIds |-> 0]
    /\ close_calls = [s \in SessionIds |-> 0]
    /\ pc = [t \in Threads |-> IF t = Reaper THEN "not_started"
                             ELSE IF t = Main THEN "lifespan" ELSE "new"]
    /\ op = [t \in Threads |-> "none"]
    /\ sid = [t \in Threads |-> 0]
    /\ pid = [t \in Threads |-> 0]
    /\ error = [t \in Threads |-> "none"]
    /\ status = [t \in Threads |-> 0]
    /\ snap = [t \in Threads |-> {}]
    /\ step = [t \in Threads |-> START]
    /\ attempted = [t \in Threads |-> {}]
    /\ failed = [t \in Threads |-> {}]
    /\ to_close = <<>>
    /\ tc_idx = 0
    /\ rnow = 0
    /\ scanned = {}

InitWith(m, idle) ==
    /\ ManagerInit(m, idle)
    /\ now = 0
    /\ HostDefault

Init == InitWith(max_sessions, session_ttl)

\* lifespan startup: manager.start_cleanup_task()
StartCleanupTask ==
    /\ phase = "startup"
    /\ phase' = "serving"
    /\ pc' = IF ReapingEnabled(ttl)
             THEN [pc EXCEPT ![Reaper] = "sleep"] ELSE pc
    /\ UNCHANGED <<hostVars, keyVars, loopVars, infoVars, auxVars, lifespanVars, now, sessions, sessionVars, close_calls, op,
                   sid, pid, error, status, closeVars, reaperVars>>

\* the clock advances
Tick ==
    /\ Running
    /\ now < MaxTime
    /\ now' = now + 1
    /\ UNCHANGED <<hostVars, keyVars, loopVars, infoVars, auxVars, lifespanVars, phase, sessions, sessionVars, close_calls, pc,
                   op, sid, pid,
                   error, status, closeVars, reaperVars>>

\* a request arrives: requests are numbered in arrival order
CanStart(r) ==
    /\ Running
    /\ pc[r] = "new"
    /\ \A q \in Requests : q < r => pc[q] # "new"

\* the handler returns or raises: the response is sent
Respond(r, err, code) ==
    /\ pc' = [pc EXCEPT ![r] = "done"]
    /\ error' = [error EXCEPT ![r] = err]
    /\ status' = [status EXCEPT ![r] = code]

\* POST /sessions -> SessionManager.create_session, up to
\* `await async_playwright().start()` in BrowserSession.initialize
CreateSession(r) ==
    /\ CanStart(r)
    /\ op' = [op EXCEPT ![r] = "create"]
    \* async with self._lock: the capacity check and the id
    /\ lock' = Unlock(r)
    /\ IF AtCapacity(sessions)
       THEN /\ Respond(r, "CapacityExceeded", 429)
            /\ UNCHANGED <<sid, sessions, sessionVars, ensure_calls,
                           held_at_provision>>
       ELSE LET s == NewSessionId IN
            /\ sid' = [sid EXCEPT ![r] = s]
            \* initialize: binary_path = ensure_binary()
            /\ ensure_calls' = [ensure_calls EXCEPT ![r] = @ + 1]
            /\ held_at_provision' = IF lock' = r
                                    THEN held_at_provision \cup {r}
                                    ELSE held_at_provision
            /\ created_at' = [created_at EXCEPT ![s] = now]
            /\ last_used' = [last_used EXCEPT ![s] = now]
            /\ UNCHANGED <<sessions, pw, browser, context, pages, info_pages,
                           page_count>>
            \* ensure_binary() is synchronous; a RuntimeError of it is
            \* answered 429 by the router, any other exception 500
            /\ \E outcome \in {"ok", "RuntimeError", "Exception"} :
                 IF outcome = "ok"
                 THEN /\ pc' = [pc EXCEPT ![r] = "pw_start"]
                      /\ UNCHANGED <<error, status>>
                 ELSE Respond(r, "ProvisioningError",
                              IF outcome = "RuntimeError" THEN 429 ELSE 500)
    /\ UNCHANGED <<hostVars, keyVars, loopVars, infoVars, launch_calls, listing, lifespanVars, phase, now, close_calls,
                   pid, closeVars, reaperVars>>

\* BrowserSession.initialize: what follows each awaited launch call
\* (playwright start, chromium.launch, new_context), then the insertion
InitAfterNoContext(stage) ==
    CASE stage = "pw_start" -> "launch"
      [] stage = "launch" -> "insert"
      [] OTHER -> "insert"
InsertBeforeLaunch(stage) ==
    CASE stage = "pw_start" -> "insert"
      [] OTHER -> "insert"
InitAfter(stage) ==
    CASE stage = "pw_start" -> "launch"
      [] stage = "launch" -> "new_context"
      [] OTHER -> "insert"

InLaunch(r) == pc[r] \in {"pw_start", "launch", "new_context"}

\* an awaited launch call raised: initialize has no except clause around it
\* and create_session none around initialize, so the error propagates
RetryLaunch(stage) == IF stage = "launch" THEN "retry" ELSE "raise"
OnLaunchError(stage) == "raise"

\* create_session resumes after an awaited launch call: the call raised
\* (the error leaves create_session, the router answers 500), or it
\* returned and initialize goes on; after the last one the session is
\* inserted under the lock and the id returned
LaunchStepDone(r) ==
    /\ InLaunch(r)
    /\ LET s == sid[r] IN
       \E ok \in BOOLEAN :
         IF ~ok
         THEN /\ IF OnLaunchError(pc[r]) = "retry"
                 THEN /\ launch_calls' = [launch_calls EXCEPT ![r] = @ + 1]
                      /\ UNCHANGED <<pc, error, status>>
                 ELSE /\ Respond(r, "LaunchFailed", 500)
                      /\ UNCHANGED launch_calls
              /\ UNCHANGED <<sessions, pw, browser, context, lock>>
         ELSE /\ pw' = IF pc[r] = "pw_start" THEN [pw EXCEPT ![s] = TRUE] ELSE pw
              \* self._browser = await self._pw.chromium.launch(...)
              /\ launch_calls' = IF InitAfter(pc[r]) = "launch"
                                 THEN [launch_calls EXCEPT ![r] = @ + 1]
                                 ELSE launch_calls
              /\ browser' = IF pc[r] = "launch"
                            THEN [browser EXCEPT ![s] = TRUE] ELSE browser
              /\ context' = IF pc[r] = "new_context"
                            THEN [context EXCEPT ![s] = TRUE] ELSE context
              /\ IF InitAfter(pc[r]) = "insert"
                 THEN \* async with self._lock: the insertion
                      /\ lock' = Unlock(r)
                      /\ sessions' = RegistryInsert(sessions, s)
                      /\ Respond(r, "none", 201)
                 ELSE /\ pc' = [pc EXCEPT ![r] = InitAfter(pc[r])]
                      /\ UNCHANGED <<sessions, error, status, lock>>
    /\ UNCHANGED <<hostVars, keyVars, loopVars, infoVars, ensure_calls, listing, held_at_provision, lifespanVars, phase,
                   now, created_at, last_used, pages, info_pages,
                   page_count, close_calls, op, sid, pid, closeVars, reaperVars>>

\* ------------------------------------------------- BrowserSession.close
Rank(st) ==
    CASE st = CTX -> 1
      [] st = BROWSER -> 2
      [] st = PW -> 3
      [] st = DONE -> 4
      [] OTHER -> 0

FollowingBrowserFirst(cur, snapPages, s) ==
    LET later == IF cur = START THEN snapPages
                 ELSE IF IsPage(cur) THEN {p \in snapPages : p > cur[2]}
                 ELSE {}
    IN  IF later # {} THEN PageStep(Min(later))
        ELSE IF Rank(cur) < 1 /\ browser[s] THEN BROWSER
        ELSE IF Rank(cur) \in {0, 2} /\ context[s] THEN CTX
        ELSE IF Rank(cur) < 3 /\ pw[s] THEN PW
        ELSE DONE

\* the teardown call close() makes after `cur`: the pages of its snapshot in
\* order, then the context, the browser and playwright, each if it is set
Following(cur, snapPages, s) ==
    LET later == IF cur = START THEN snapPages
                 ELSE IF IsPage(cur) THEN {p \in snapPages : p > cur[2]}
                 ELSE {}
    IN  IF later # {} THEN PageStep(Min(later))
        ELSE IF Rank(cur) < 1 /\ context[s] THEN CTX
        ELSE IF Rank(cur) < 2 /\ browser[s] THEN BROWSER
        ELSE IF Rank(cur) < 3 /\ pw[s] THEN PW
        ELSE DONE

\* every call is wrapped in its own try/except Exception: pass, so a call
\* that raised is followed by the same call as one that returned
AbortOnFailure(cur, fail, snapPages, s) ==
    IF fail THEN DONE ELSE Following(cur, snapPages, s)
NextTeardownStep(cur, fail, snapPages, s) == Following(cur, snapPages, s)

\* what close() raises to its caller, given the calls that raised
RaiseIfAnyFailed(fs) == IF fs # {} THEN "TeardownError" ELSE "none"
CloseOutcome(fs) == "none"

\* SessionManager.close_session(s) when the pop finds the session: the entry
\* is removed under the lock, then session.close() runs up to its first
\* awaited teardown call
BeginClose(th, s) ==
    LET first == NextTeardownStep(START, FALSE, pages[s], s) IN
    /\ sessions' = RegistryPop(sessions, s)
    /\ close_calls' = [close_calls EXCEPT ![s] = @ + 1]
    /\ sid' = [sid EXCEPT ![th] = s]
    /\ snap' = [snap EXCEPT ![th] = pages[s]]
    /\ step' = [step EXCEPT ![th] = first]
    /\ attempted' = [attempted EXCEPT ![th] = {first} \ {DONE}]
    /\ failed' = [failed EXCEPT ![th] = {}]
    /\ pc' = [pc EXCEPT ![th] = "close"]

\* DELETE /sessions/{session_id}: get_session validates, close_session pops
CloseSession(r, s) ==
    /\ CanStart(r)
    /\ op' = [op EXCEPT ![r] = "close"]
    /\ IF ~HasSession(sessions, s)
       THEN /\ Respond(r, "NotFound", 404)
            /\ sid' = [sid EXCEPT ![r] = s]
            /\ UNCHANGED <<sessions, close_calls, closeVars, lock>>
       ELSE /\ lock' = Unlock(r)
            /\ BeginClose(r, s)
            /\ UNCHANGED <<error, status>>
    /\ UNCHANGED <<hostVars, keyVars, loopVars, infoVars, callVars, listing, held_at_provision, lifespanVars, phase, now,
                   sessionVars, pid, reaperVars>>

\* first position from k on whose session is still registered: for the
\* others close_session pops None and returns without suspending
FirstLiveIgnoresRegistry(list, k, reg) == k
FirstLiveStopsAtMissing(list, k, reg) ==
    IF k <= Len(list) /\ list[k] \notin Range(reg) THEN Len(list) + 1 ELSE k
RECURSIVE FirstLive(_, _, _)
FirstLive(list, k, reg) ==
    IF k > Len(list) THEN k
    ELSE IF list[k] \in Range(reg) THEN k
    ELSE FirstLive(list, k + 1, reg)

\* close() of a request has returned; fl are its teardown calls that raised
EndClose(th, fl) ==
    /\ step' = [step EXCEPT ![th] = DONE]
    /\ failed' = [failed EXCEPT ![th] = fl]
    /\ UNCHANGED <<snap, attempted>>

\* _cleanup_idle_sessions has returned: its locals are gone
EndPass ==
    /\ pc' = [pc EXCEPT ![Reaper] = "sleep"]
    /\ sid' = [sid EXCEPT ![Reaper] = 0]
    /\ snap' = [snap EXCEPT ![Reaper] = {}]
    /\ step' = [step EXCEPT ![Reaper] = START]
    /\ attempted' = [attempted EXCEPT ![Reaper] = {}]
    /\ failed' = [failed EXCEPT ![Reaper] = {}]
    /\ to_close' = <<>>
    /\ tc_idx' = 0
    /\ rnow' = 0
    /\ scanned' = {}

\* for sid in to_close: await self.close_session(sid), from position k on,
\* up to the next suspension (t: the scan's now, seen: the sessions it
\* iterated over); when the list is exhausted _cleanup_idle_sessions
\* returns and the loop sleeps again
ReaperProceed(list, k, t, seen) ==
    LET j == FirstLive(list, k, sessions) IN
    IF j <= Len(list)
    THEN /\ to_close' = list
         /\ tc_idx' = j
         /\ rnow' = t
         /\ scanned' = seen
         /\ BeginClose(Reaper, list[j])
    ELSE /\ EndPass
         /\ UNCHANGED <<sessions, close_calls>>

\* the sessions idle longer than session_ttl, in the order of the mapping
IdleSessionsFirstOnly(reg, lu, t) ==
    LET idle == SelectSeq(reg, LAMBDA x : t - lu[x] > ttl)
    IN  IF idle = <<>> THEN idle ELSE <<Head(idle)>>
IdleSessions(reg, lu, t) == SelectSeq(reg, LAMBDA x : t - lu[x] > ttl)

\* _cleanup_loop wakes from sleep(60): _cleanup_idle_sessions scans under
\* the lock, then closes the flagged sessions one after the other
ReaperWake ==
    /\ Running
    /\ pc[Reaper] = "sleep"
    /\ lock' = Unlock(Reaper)
    /\ ReaperProceed(IdleSessions(sessions, last_used, now), 1, now,
                     Range(sessions))
    /\ UNCHANGED <<hostVars, keyVars, loopVars, infoVars, callVars, listing, held_at_provision, lifespanVars, phase, now,
                   sessionVars, op, pid, error, status>>

\* close_all has closed its sessions: the cleanup task is cancelled (the
\* CancelledError is raised at the await it is suspended in and is no
\* Exception: it leaves close() there), close_all returns and the server
\* has stopped
EndCloseAll(list) ==
    /\ phase' = "stopped"
    /\ session_ids' = list
    /\ si_idx' = Len(list) + 1
    /\ pc' = [pc EXCEPT ![Main] = "stopped",
                        ![Reaper] = IF @ \in {"sleep", "close"}
                                    THEN "cancelled" ELSE @]
    /\ sid' = [sid EXCEPT ![Main] = 0]
    /\ snap' = [snap EXCEPT ![Main] = {}]
    /\ step' = [step EXCEPT ![Main] = START]
    /\ attempted' = [attempted EXCEPT ![Main] = {}]
    /\ failed' = [failed EXCEPT ![Main] = {}]

\* for sid in session_ids: await self.close_session(sid), from position k
\* on, up to the next suspension
CloseAllProceed(list, k) ==
    LET j == FirstLive(list, k, sessions) IN
    IF j <= Len(list)
    THEN /\ phase' = "shutdown"
         /\ session_ids' = list
         /\ si_idx' = j
         /\ BeginClose(Main, list[j])
    ELSE /\ EndCloseAll(list)
         /\ UNCHANGED <<sessions, close_calls>>

\* an awaited teardown call of close() returns or raises
CloseStepDone(th) ==
    /\ pc[th] = "close"
    /\ LET s == sid[th] IN
       \E fail \in (IF step[th] = DONE THEN {FALSE} ELSE BOOLEAN) :
         LET nxt == NextTeardownStep(step[th], fail, snap[th], s)
             fl == IF fail THEN failed[th] \cup {step[th]} ELSE failed[th]
         IN
         \* self._pages.clear() after the loop over the pages
         /\ pages' = IF IsPage(step[th]) /\ ~IsPage(nxt)
                     THEN [pages EXCEPT ![s] = {}] ELSE pages
         /\ IF nxt # DONE
            THEN /\ step' = [step EXCEPT ![th] = nxt]
                 /\ attempted' = [attempted EXCEPT ![th] = @ \cup {nxt}]
                 /\ failed' = [failed EXCEPT ![th] = fl]
                 /\ UNCHANGED <<sessions, close_calls, pc, sid, snap, error,
                                status, reaperVars, lifespanVars, phase,
                                lock>>
            ELSE IF th = Reaper /\ CloseOutcome(fl) # "none"
            THEN \* an exception out of close() would leave close_session,
                 \* _cleanup_idle_sessions and _cleanup_loop, none of
                 \* which has a handler, and end the task
                 /\ pc' = [pc EXCEPT ![Reaper] = "crashed"]
                 /\ EndClose(Reaper, fl)
                 /\ UNCHANGED <<sessions, close_calls, sid, error, status,
                                reaperVars, lifespanVars, phase, lock>>
            ELSE IF th = Reaper
            THEN /\ ReaperProceed(to_close, tc_idx + 1, rnow, scanned)
                 /\ lock' = IF tc_idx < Len(to_close)
                            THEN Unlock(Reaper) ELSE lock
                 /\ UNCHANGED <<error, status, lifespanVars, phase>>
            ELSE IF th = Main
            THEN /\ CloseAllProceed(session_ids, si_idx + 1)
                 /\ lock' = IF si_idx < Len(session_ids)
                            THEN Unlock(Main) ELSE lock
                 /\ UNCHANGED <<error, status, limit, ttl, reaperVars>>
            ELSE /\ EndClose(th, fl)
                 /\ Respond(th, CloseOutcome(fl),
                            IF CloseOutcome(fl) = "none" THEN 200 ELSE 500)
                 /\ UNCHANGED <<sessions, close_calls, sid, reaperVars,
                                lifespanVars, phase, lock>>
    /\ UNCHANGED <<hostVars, keyVars, loopVars, infoVars, now, created_at, last_used, pw, browser, context,
                   info_pages, page_count, op, pid, callVars, listing,
                   held_at_provision>>

\* ------------------------------------------------------------- pages

\* new_page calls on session s that are awaiting the driver
PendingNewPages(s) ==
    Cardinality({q \in Requests : pc[q] = "new_page" /\ sid[q] = s})

\* POST /sessions/{session_id}/pages: _get_session, then
\* BrowserSession.new_page up to `await self._context.new_page()`
NewPage(r, s) ==
    /\ CanStart(r)
    /\ page_count[s] + PendingNewPages(s) < MaxPages
    /\ op' = [op EXCEPT ![r] = "new_page"]
    /\ sid' = [sid EXCEPT ![r] = s]
    /\ IF ~HasSession(sessions, s)
       THEN Respond(r, "NotFound", 404)
       ELSE /\ pc' = [pc EXCEPT ![r] = "new_page"]
            /\ UNCHANGED <<error, status>>
    /\ UNCHANGED <<hostVars, keyVars, loopVars, infoVars, auxVars, lifespanVars, phase, now, sessions, sessionVars, close_calls,
                   pid,
                   closeVars, reaperVars>>

\* the driver's new_page returns or raises: the page is stored under a
\* fresh id and last_used is set
NewPageDone(r) ==
    /\ pc[r] = "new_page"
    /\ LET s == sid[r]
           p == page_count[s] + 1
       IN
       \E ok \in BOOLEAN :
         IF ok
         THEN /\ pages' = [pages EXCEPT ![s] = @ \cup {p}]
              /\ info_pages' = [info_pages EXCEPT ![s] = @ \cup {p}]
              /\ page_count' = [page_count EXCEPT ![s] = p]
              /\ last_used' = Touch(last_used, s, now)
              /\ pid' = [pid EXCEPT ![r] = p]
              /\ Respond(r, "none", 201)
         ELSE /\ Respond(r, "DriverError", 500)
              /\ UNCHANGED <<pages, info_pages, page_count, last_used, pid>>
    /\ UNCHANGED <<hostVars, keyVars, loopVars, infoVars, auxVars, lifespanVars, phase, now, sessions, created_at, pw, browser,
                   context,
                   close_calls, op, sid, closeVars, reaperVars>>

\* GET /sessions/{session_id}/pages/{page_id}: _get_session, then
\* BrowserSession.update_page_info up to `await page.title()`
GetPageInfo(r, s, p) ==
    /\ CanStart(r)
    /\ op' = [op EXCEPT ![r] = "page_info"]
    /\ sid' = [sid EXCEPT ![r] = s]
    /\ pid' = [pid EXCEPT ![r] = p]
    /\ IF ~HasSession(sessions, s)
       THEN /\ Respond(r, "NotFound", 404)
            /\ UNCHANGED last_used
       ELSE IF ~HasPage(pages[s], p)
       THEN /\ Respond(r, "PageNotFound", 404)
            /\ UNCHANGED last_used
       ELSE IF p \in info_pages[s]
       THEN /\ pc' = [pc EXCEPT ![r] = "title"]
            /\ UNCHANGED <<error, status, last_used>>
       ELSE \* no record: last_used is set, then the router's lookup raises
            /\ last_used' = Touch(last_used, s, now)
            /\ Respond(r, "PageNotFound", 404)
    /\ UNCHANGED <<hostVars, keyVars, loopVars, infoVars, auxVars, lifespanVars, phase, now, sessions, created_at, pw, browser,
                   context, pages, info_pages, page_count, close_calls,
                   closeVars, reaperVars>>

\* page.title() returns or raises (swallowed): last_used is set; get_page_info
\* then reads the page's record, a navigation returns page.url
GetPageInfoDone(r) ==
    /\ pc[r] = "title"
    /\ LET s == sid[r] IN
       /\ last_used' = Touch(last_used, s, now)
       /\ IF op[r] = "navigate" \/ pid[r] \in info_pages[s]
          THEN Respond(r, "none", 200)
          ELSE Respond(r, "PageNotFound", 404)
    /\ UNCHANGED <<hostVars, keyVars, loopVars, infoVars, auxVars, lifespanVars, phase, now, sessions, created_at, pw, browser,
                   context, pages, info_pages, page_count, close_calls, op, sid,
                   pid, closeVars, reaperVars>>

\* POST .../pages/{page_id}/go_back (navigate, reload, go_forward alike):
\* _get_page, then up to the awaited driver navigation
Navigate(r, s, p) ==
    /\ CanStart(r)
    /\ op' = [op EXCEPT ![r] = "navigate"]
    /\ sid' = [sid EXCEPT ![r] = s]
    /\ pid' = [pid EXCEPT ![r] = p]
    /\ IF ~HasSession(sessions, s)
       THEN Respond(r, "NotFound", 404)
       ELSE IF ~HasPage(pages[s], p)
       THEN Respond(r, "PageNotFound", 404)
       ELSE /\ pc' = [pc EXCEPT ![r] = "goto"]
            /\ UNCHANGED <<error, status>>
    /\ UNCHANGED <<hostVars, keyVars, loopVars, infoVars, auxVars, lifespanVars, phase, now, sessions, sessionVars, close_calls,
                   closeVars, reaperVars>>

\* the driver navigation returns or raises; on return update_page_info runs
\* up to `await page.title()`; an exception of it (the page is gone) is
\* answered 500 by the handler's except Exception
NavigateDone(r) ==
    /\ pc[r] = "goto"
    /\ LET s == sid[r]
           p == pid[r]
       IN
       \E ok \in BOOLEAN :
         IF ~ok
         THEN /\ Respond(r, "DriverError", 500)
              /\ UNCHANGED last_used
         ELSE IF ~HasPage(pages[s], p)
         THEN /\ Respond(r, "NavigationFailed", 500)
              /\ UNCHANGED last_used
         ELSE IF p \in info_pages[s]
         THEN /\ pc' = [pc EXCEPT ![r] = "title"]
              /\ UNCHANGED <<error, status, last_used>>
         ELSE /\ last_used' = Touch(last_used, s, now)
              /\ Respond(r, "none", 200)
    /\ UNCHANGED <<hostVars, keyVars, loopVars, infoVars, auxVars, lifespanVars, phase, now, sessions, created_at, pw, browser,
                   context, pages, info_pages, page_count, close_calls, op, sid,
                   pid, closeVars, reaperVars>>

\* DELETE /sessions/{session_id}/pages/{page_id}: _get_session, then
\* BrowserSession.close_page up to `await page.close()`
ClosePage(r, s, p) ==
    /\ CanStart(r)
    /\ op' = [op EXCEPT ![r] = "close_page"]
    /\ sid' = [sid EXCEPT ![r] = s]
    /\ pid' = [pid EXCEPT ![r] = p]
    /\ IF ~HasSession(sessions, s)
       THEN Respond(r, "NotFound", 404)
       ELSE IF ~HasPage(pages[s], p)
       THEN Respond(r, "PageNotFound", 404)
       ELSE /\ pc' = [pc EXCEPT ![r] = "page_close"]
            /\ UNCHANGED <<error, status>>
    /\ UNCHANGED <<hostVars, keyVars, loopVars, infoVars, auxVars, lifespanVars, phase, now, sessions, sessionVars, close_calls,
                   closeVars, reaperVars>>

\* page.close() raises: the error leaves close_page before the two
\* removals, the router answers 500.  It returns: `del self._pages[page_id]`
\* (KeyError -> 404 when the entry is gone meanwhile), then the record is
\* popped
ClosePageDone(r) ==
    /\ pc[r] = "page_close"
    /\ LET s == sid[r]
           p == pid[r]
       IN
       \E ok \in BOOLEAN :
         IF ~ok
         THEN /\ Respond(r, "DriverError", 500)
              /\ UNCHANGED <<pages, info_pages>>
         ELSE IF p \notin pages[s]
         THEN /\ Respond(r, "PageNotFound", 404)
              /\ UNCHANGED <<pages, info_pages>>
         ELSE /\ pages' = [pages EXCEPT ![s] = RemovePage(@, p)]
              /\ info_pages' = [info_pages EXCEPT ![s] = PopRecord(@, p)]
              /\ Respond(r, "none", 200)
    /\ UNCHANGED <<hostVars, keyVars, loopVars, infoVars, auxVars, lifespanVars, phase, now, sessions, created_at, last_used,
                   pw, browser, context, page_count, close_calls, op, sid, pid,
                   closeVars, reaperVars>>

\* GET /sessions/{session_id} and GET /sessions/{session_id}/pages: the
\* lookup, then the answer is built from session.info without suspending
Lookup(r, s, what) ==
    /\ CanStart(r)
    /\ op' = [op EXCEPT ![r] = what]
    /\ sid' = [sid EXCEPT ![r] = s]
    /\ IF ~HasSession(sessions, s)
       THEN Respond(r, "NotFound", 404)
       ELSE Respond(r, "none", 200)
    /\ UNCHANGED <<hostVars, keyVars, loopVars, infoVars, auxVars, lifespanVars, phase, now, sessions, sessionVars, close_calls,
                   pid, closeVars, reaperVars>>

GetSession(r, s) == Lookup(r, s, "get_session")

ListPages(r, s) == Lookup(r, s, "list_pages")

\* ------------------------------------------------------------ shutdown

\* lifespan shutdown: await manager.close_all()
Shutdown ==
    /\ phase = "serving"
    /\ pc[Main] = "lifespan"
    /\ CloseAllProceed(sessions, 1)
    /\ lock' = IF sessions # <<>> THEN Unlock(Main) ELSE lock
    /\ UNCHANGED <<hostVars, keyVars, loopVars, infoVars, limit, ttl, now, sessionVars, op, pid, error, status,
                   reaperVars, callVars, listing, held_at_provision>>

\* SessionManager.list_sessions: one summary per entry of self._sessions, in
\* the order of the mapping, with the ids of the entry's page records
ListSessionsAllObjects ==
    [i \in 1..Cardinality(Allocated) |-> <<i, info_pages[i]>>]
ListSessionsResult ==
    [i \in 1..Len(sessions) |-> <<sessions[i], info_pages[sessions[i]]>>]

\* GET /sessions: the handler calls the synchronous list_sessions and
\* returns; it awaits nothing
ListSessions(r) ==
    /\ CanStart(r)
    /\ op' = [op EXCEPT ![r] = "list"]
    /\ listing' = [listing EXCEPT ![r] = ListSessionsResult]
    /\ Respond(r, "none", 200)
    /\ UNCHANGED <<hostVars, keyVars, loopVars, infoVars, lock, callVars, held_at_provision, lifespanVars, phase, now,
                   sessions, sessionVars, close_calls, sid, pid, closeVars,
                   reaperVars>>

\* the session lifecycle of a serving process
NextServing ==
    \/ Tick
    \/ \E r \in Requests : CreateSession(r)
    \/ \E r \in Requests : LaunchStepDone(r)
    \/ \E r \in Requests, s \in Allocated : CloseSession(r, s)
    \/ \E th \in Threads : CloseStepDone(th)
    \/ ReaperWake
    \/ \E r \in Requests, s \in Allocated : NewPage(r, s)
    \/ \E r \in Requests : NewPageDone(r)
    \/ \E r \in Requests, s \in Allocated, p \in PageIds : GetPageInfo(r, s, p)
    \/ \E r \in Requests : GetPageInfoDone(r)

NextCore == StartCleanupTask \/ NextServing

Next == NextCore

Spec == Init /\ [][Next]_vars

\* the page-level requests and the lookups
NextPages ==
    \/ \E r \in Requests, s \in Allocated, p \in PageIds : Navigate(r, s, p)
    \/ \E r \in Requests : NavigateDone(r)
    \/ \E r \in Requests, s \in Allocated, p \in PageIds : ClosePage(r, s, p)
    \/ \E r \in Requests : ClosePageDone(r)
    \/ \E r \in Requests, s \in Allocated : GetSession(r, s)
    \/ \E r \in Requests, s \in Allocated : ListPages(r, s)

\* the whole server: every request, the cleanup task and the shutdown
NextFull == NextCore \/ NextPages \/ Shutdown

FullSpec == Init /\ [][NextFull]_vars

\* a server that has been up for a while: the cleanup task sleeps and one
\* session, created at time 0 by an earlier request, is registered and has
\* no page yet
InitReady(m) ==
    /\ phase = "serving"
    /\ limit = m
    /\ ttl = session_ttl
    /\ lock = Free
    /\ ensure_calls = [r \in Requests |-> 0]
    /\ launch_calls = [r \in Requests |-> 0]
    /\ listing = [r \in Requests |-> <<>>]
    /\ KeyDefault
    /\ SideDefault
    /\ held_at_provision = {}
    /\ HostDefault
    /\ session_ids = <<>>
    /\ si_idx = 0
    /\ now = 0
    /\ sessions = <<1>>
    /\ created_at = [s \in SessionIds |-> IF s = 1 THEN 0 ELSE -1]
    /\ last_used = [s \in SessionIds |-> IF s = 1 THEN 0 ELSE -1]
    /\ pw = [s \in SessionIds |-> s = 1]
    /\ browser = [s \in SessionIds |-> s = 1]
    /\ context = [s \in SessionIds |-> s = 1]
    /\ pages = [s \in SessionIds |-> {}]
    /\ info_pages = [s \in SessionIds |-> {}]
    /\ page_count = [s \in SessionIds |-> 0]
    /\ close_calls = [s \in SessionIds |-> 0]
    /\ pc = [t \in Threads |-> IF t = Reaper
                             THEN (IF session_ttl > 0 THEN "sleep"
                                   ELSE "not_started")
                             ELSE IF t = Main THEN "lifespan" ELSE "new"]
    /\ op = [t \in Threads |-> "none"]
    /\ sid = [t \in Threads |-> 0]
    /\ pid = [t \in Threads |-> 0]
    /\ error = [t \in Threads |-> "none"]
    /\ status = [t \in Threads |-> 0]
    /\ snap = [t \in Threads |-> {}]
    /\ step = [t \in Threads |-> START]
    /\ attempted = [t \in Threads |-> {}]
    /\ failed = [t \in Threads |-> {}]
    /\ to_close = <<>>
    /\ tc_idx = 0
    /\ rnow = 0
    /\ scanned = {}

\* one ready session and the requests that work on sessions and pages
NextReady ==
    \/ Tick
    \/ \E r \in Requests, s \in Allocated : CloseSession(r, s)
    \/ \E th \in Threads : CloseStepDone(th)
    \/ \E r \in Requests, s \in Allocated : NewPage(r, s)
    \/ \E r \in Requests : NewPageDone(r)
    \/ \E r \in Requests, s \in Allocated, p \in PageIds : GetPageInfo(r, s, p)
    \/ \E r \in Requests : GetPageInfoDone(r)
    \/ NextPages

ReadySpec == InitReady(max_sessions) /\ [][NextReady]_vars

\* max_sessions = 1 and the one session is registered
OneSpec == InitReady(1) /\ [][NextServing]_vars

\* the session lifecycle with the shutdown
NextShutdown == NextCore \/ Shutdown

ShutdownSpec == Init /\ [][NextShutdown]_vars

\* the session lifecycle with GET /sessions requests
NextList == NextCore \/ \E r \in Requests : ListSessions(r)

ListSpec == Init /\ [][NextList]_vars

\* ------------------------------------------- the functions on their own
\* version numbers around the bundled one: each of its four parts moved by
\* at most MaxDelta, and the same with a part dropped or added
Bundled == _version_tuple(CHROMIUM_VERSION)
Moved == {[i \in 1..4 |-> Bundled[i] + d[i]] : d \in [1..4 -> -MaxDelta..MaxDelta]}
NearVersions == {v \in Moved : \A i \in 1..4 : v[i] >= 0}
SampleVersions ==
    NearVersions \cup {SubSeq(Bundled, 1, 3), Bundled \o <<0>>, <<Bundled[1] + 1>>}

\* "a.b.c.d" for the tuple (a, b, c, d)
RECURSIVE Render(_)
Render(v) ==
    IF Len(v) = 1 THEN <<Num(v[1])>>
    ELSE <<Num(v[1]), Dot>> \o Render(Tail(v))

\* what the latest_version marker may hold
MarkerTexts ==
    {Render(v) : v \in SampleVersions}
    \cup {Append(Render(v), Space) : v \in SampleVersions}
    \cup { <<>>, <<Space>>, <<Other>>, <<Num(Bundled[1] + 1), Dot, Other>>,
           <<Num(Bundled[1] + 1), Dot>>,
           <<Num(Bundled[1] + 1), Dot, Space, Num(0)>> }
MarkerFiles == {Absent, Unreadable} \cup {File(x) : x \in MarkerTexts}

\* the spellings of "false" in upper and lower case letters
FalseSpellings ==
    {s \in [1..5 -> {"f", "a", "l", "s", "e", "F", "A", "L", "S", "E"}] :
        \A i \in 1..5 : s[i] \in {<<"f", "a", "l", "s", "e">>[i],
                                  <<"F", "A", "L", "S", "E">>[i]}}
AutoUpdateValues ==
    {Unset, Set(<<>>), Set(<<"t", "r", "u", "e">>), Set(<<"0">>),
     Set(<<"f", "a", "l", "s", "e", " ">>), Set(<<"F", "A", "L", "S">>)}
    \cup {Set(s) : s \in FalseSpellings}
PathValues == {Unset, Set(<<>>), Set(<<"/">>)}

\* clock readings and recorded check times around UPDATE_CHECK_INTERVAL
Times ==
    {0, 1, UPDATE_CHECK_INTERVAL - 1, UPDATE_CHECK_INTERVAL,
     UPDATE_CHECK_INTERVAL + 1, 2 * UPDATE_CHECK_INTERVAL + 1}
CheckFiles ==
    {Absent, Unreadable, File(<<>>), File(<<Other>>)}
    \cup {File(<<Num(x)>>) : x \in Times}
    \cup {File(<<Num(x), Space>>) : x \in Times}

\* a process about to ask for the effective version
InitVersion ==
    /\ ManagerInit(max_sessions, session_ttl)
    /\ now = 0
    /\ environ = [n \in {"CLOAKBROWSER_AUTO_UPDATE", "CLOAKBROWSER_BINARY_PATH",
                        "CLOAKBROWSER_DOWNLOAD_URL"} |-> Unset]
    /\ ret = [version |-> NoVersion, check |-> NoAnswer, latest |-> NotReturned]
    /\ response = NoResponse
    /\ \E marker \in MarkerFiles :
       \E bins \in SUBSET {Strip(marker.text), CHROMIUM_VERSION} :
         cache = [latest_version |-> marker, binaries |-> bins,
                  last_update_check |-> Absent]

\* a process about to decide whether to look for an update
InitUpdate ==
    /\ ManagerInit(max_sessions, session_ttl)
    /\ now \in Times
    /\ \E au \in AutoUpdateValues, bp \in PathValues, url \in PathValues :
         environ = [n \in {"CLOAKBROWSER_AUTO_UPDATE", "CLOAKBROWSER_BINARY_PATH",
                           "CLOAKBROWSER_DOWNLOAD_URL"} |->
                      IF n = "CLOAKBROWSER_AUTO_UPDATE" THEN au
                      ELSE IF n = "CLOAKBROWSER_BINARY_PATH" THEN bp ELSE url]
    /\ ret = [version |-> NoVersion, check |-> NoAnswer, latest |-> NotReturned]
    /\ response = NoResponse
    /\ \E f \in CheckFiles :
         cache = [latest_version |-> Absent, binaries |-> {},
                  last_update_check |-> f]

\* the tags a release may carry: none, "v1", "chromium-v1", "chromium-v2",
\* "chromium-v", "chromium-1", "vchromium-v1"
Tags ==
    {<<>>, <<V, Num(1)>>, <<Chromium, V, Num(1)>>, <<Chromium, V, Num(2)>>,
     <<Chromium, V>>, <<Chromium, Num(1)>>, <<V, Chromium, V, Num(1)>>}
Releases == [tag : Tags, draft : BOOLEAN]
ReleaseLists == UNION {[1..n -> Releases] : n \in 0..MaxReleases}

\* a process about to ask GitHub for the latest release: the request will
\* raise or answer with a list of releases
InitLatest ==
    /\ ManagerInit(max_sessions, session_ttl)
    /\ now = 0
    /\ environ = [n \in {"CLOAKBROWSER_AUTO_UPDATE", "CLOAKBROWSER_BINARY_PATH",
                        "CLOAKBROWSER_DOWNLOAD_URL"} |-> Unset]
    /\ cache = [latest_version |-> Absent, binaries |-> {},
                last_update_check |-> Absent]
    /\ ret = [version |-> NoVersion, check |-> NoAnswer, latest |-> NotReturned]
    /\ \/ response = NoResponse
       \/ \E l \in ReleaseLists : response = [ok |-> TRUE, releases |-> l]

InitHost == InitVersion \/ InitUpdate \/ InitLatest

\* the calls change nothing of the session manager
managerVars ==
    <<phase, limit, ttl, lock, ensure_calls, launch_calls, listing,
      held_at_provision, session_ids, si_idx, now, sessions, sessionVars,
      close_calls, pc, op, sid, pid, error, status, closeVars, reaperVars>>

\* a call of get_effective_version()
CallGetEffectiveVersion ==
    /\ ret.version = NoVersion
    /\ ret' = [ret EXCEPT !.version = get_effective_version]
    /\ UNCHANGED <<managerVars, keyVars, loopVars, infoVars, environ, cache,
                   response>>

\* a call of _should_check_for_update()
CallShouldCheckForUpdate ==
    /\ ret.check = NoAnswer
    /\ ret' = [ret EXCEPT !.check = IF _should_check_for_update
                                   THEN "True" ELSE "False"]
    /\ UNCHANGED <<managerVars, keyVars, loopVars, infoVars, environ, cache,
                   response>>

\* a call of _get_latest_chromium_version()
CallGetLatestChromiumVersion ==
    /\ ~ret.latest.returned
    /\ ret' = [ret EXCEPT !.latest = _get_latest_chromium_version]
    /\ UNCHANGED <<managerVars, keyVars, loopVars, infoVars, environ, cache,
                   response>>

NextHost ==
    \/ CallGetEffectiveVersion
    \/ CallShouldCheckForUpdate
    \/ CallGetLatestChromiumVersion

HostSpec == InitHost /\ [][NextHost]_vars

\* -------------------------------------- the two mappings and their keys
\* everything but the two mappings and the calls on them
restVars == <<managerVars, hostVars, loopVars, infoVars>>

\* create_session, first locked block: the capacity check, then
\* session_id = str(uuid.uuid4())[:12], whatever uuid4 gives
DrawSessionId(c, k) ==
    /\ creating[c] = Idle
    /\ creating' = [creating EXCEPT ![c] =
                      IF Size(_sessions) >= limit THEN At("rejected", 0)
                      ELSE At("initialize", k)]
    /\ UNCHANGED <<restVars, _sessions, _pages, paging>>

\* create_session after initialize returned:
\* self._sessions[session_id] = session
InsertSession(c) ==
    /\ creating[c].at = "initialize"
    /\ _sessions' = Put(_sessions, creating[c].key, c)
    /\ creating' = [creating EXCEPT ![c].at = "returned"]
    /\ UNCHANGED <<restVars, _pages, paging>>

\* initialize raised: create_session raises, nothing is inserted
InitializeFails(c) ==
    /\ creating[c].at = "initialize"
    /\ creating' = [creating EXCEPT ![c].at = "raised"]
    /\ UNCHANGED <<restVars, _sessions, _pages, paging>>

\* close_session(k): self._sessions.pop(session_id, None)
PopSession(k) ==
    /\ _sessions[k] # NoObject
    /\ _sessions' = Drop(_sessions, k)
    /\ UNCHANGED <<restVars, creating, _pages, paging>>

NextSessionKeys ==
    \/ \E c \in Calls, k \in Keys : DrawSessionId(c, k)
    \/ \E c \in Calls : InsertSession(c)
    \/ \E c \in Calls : InitializeFails(c)
    \/ \E k \in Keys : PopSession(k)

SessionKeySpec == Init /\ [][NextSessionKeys]_vars

\* new_page up to `page = await self._context.new_page()`
BeginNewPage(c) ==
    /\ paging[c] = Idle
    /\ paging' = [paging EXCEPT ![c] = At("context.new_page", 0)]
    /\ UNCHANGED <<restVars, _sessions, creating, _pages>>

\* the driver returned the page: page_id = str(uuid.uuid4())[:8], whatever
\* uuid4 gives, then self._pages[page_id] = page (and the PageInfo under
\* the same key)
EndNewPage(c, k) ==
    /\ paging[c].at = "context.new_page"
    /\ _pages' = Put(_pages, k, c)
    /\ paging' = [paging EXCEPT ![c] = At("returned", k)]
    /\ UNCHANGED <<restVars, _sessions, creating>>

\* the driver call raised: new_page raises
NewPageFails(c) ==
    /\ paging[c].at = "context.new_page"
    /\ paging' = [paging EXCEPT ![c] = At("raised", 0)]
    /\ UNCHANGED <<restVars, _sessions, creating, _pages>>

\* close_page(k) after page.close(): del self._pages[page_id]
DeletePage(k) ==
    /\ _pages[k] # NoObject
    /\ _pages' = Drop(_pages, k)
    /\ UNCHANGED <<restVars, _sessions, creating, paging>>

NextPageKeys ==
    \/ \E c \in Calls : BeginNewPage(c)
    \/ \E c \in Calls, k \in Keys : EndNewPage(c, k)
    \/ \E c \in Calls : NewPageFails(c)
    \/ \E k \in Keys : DeletePage(k)

PageKeySpec == Init /\ [][NextPageKeys]_vars

\* ------------------------------------------ start_cleanup_task, close_all
\* everything but the cleanup tasks
notLoopVars == <<managerVars, hostVars, keyVars, infoVars>>

\* start_cleanup_task called for the k-th time: with session_ttl > 0 a task
\* is created and self._cleanup_task refers to it, whether or not it
\* referred to a task before
StartCleanupTaskCall(k) ==
    /\ ~shut
    /\ ReapingEnabled(ttl)
    /\ cleanup_tasks[k].at = "none"
    /\ \A j \in Starts : j < k => cleanup_tasks[j].at # "none"
    /\ cleanup_tasks' = [cleanup_tasks EXCEPT ![k] = Loop("sleep", 0)]
    /\ _cleanup_task' = k
    /\ UNCHANGED <<notLoopVars, shut>>

\* _cleanup_loop of task k: sleep(60) returned, _cleanup_idle_sessions scans
LoopScans(k) ==
    /\ cleanup_tasks[k].at = "sleep"
    /\ cleanup_tasks[k].scans < MaxScans
    /\ cleanup_tasks' = [cleanup_tasks EXCEPT
                           ![k] = Loop("pass", cleanup_tasks[k].scans + 1)]
    /\ UNCHANGED <<notLoopVars, _cleanup_task, shut>>

\* the pass of task k is over: the loop sleeps again
LoopSleeps(k) ==
    /\ cleanup_tasks[k].at = "pass"
    /\ cleanup_tasks' = [cleanup_tasks EXCEPT ![k].at = "sleep"]
    /\ UNCHANGED <<notLoopVars, _cleanup_task, shut>>

\* close_all: if self._cleanup_task: self._cleanup_task.cancel()
CloseAllCancels ==
    /\ ~shut
    /\ shut' = TRUE
    /\ cleanup_tasks' = IF _cleanup_task = NoTask THEN cleanup_tasks
                        ELSE [cleanup_tasks EXCEPT ![_cleanup_task].at = "cancelled"]
    /\ UNCHANGED <<notLoopVars, _cleanup_task>>

NextLoops ==
    \/ \E k \in Starts : StartCleanupTaskCall(k)
    \/ \E k \in Starts : LoopScans(k)
    \/ \E k \in Starts : LoopSleeps(k)
    \/ CloseAllCancels

LoopSpec == Init /\ [][NextLoops]_vars

\* ------------------------------------------------------ update_page_info
\* everything but the page, its record and the calls on it
notInfoVars == <<managerVars, hostVars, keyVars, loopVars>>

\* time.time() advances
WallTick ==
    /\ wall < MaxTime
    /\ wall' = wall + 1
    /\ UNCHANGED <<notInfoVars, page, info, refreshing>>

\* the browser moves the page to another document
Browse(u, t) ==
    /\ page # [url |-> u, title |-> t]
    /\ page' = [url |-> u, title |-> t]
    /\ UNCHANGED <<notInfoVars, info, refreshing, wall>>

\* update_page_info up to `await page.title()`: the url is copied
BeginUpdatePageInfo(c) ==
    /\ refreshing[c] = Idle
    /\ info' = [info EXCEPT !.url = page.url]
    /\ refreshing' = [refreshing EXCEPT ![c] = At("page.title", 0)]
    /\ UNCHANGED <<notInfoVars, page, wall>>

\* page.title() returned or raised (key 1: it raised); the exception is
\* swallowed, then self.info.last_used = time.time()
EndUpdatePageInfo(c, raised) ==
    /\ refreshing[c].at = "page.title"
    /\ info' = [info EXCEPT
                  !.title = IF raised THEN TitleAfterFailure(info.title)
                            ELSE page.title,
                  !.last_used = wall]
    /\ refreshing' = [refreshing EXCEPT
                        ![c] = At("returned", IF raised THEN 1 ELSE 0)]
    /\ UNCHANGED <<notInfoVars, page, wall>>

NextInfo ==
    \/ WallTick
    \/ \E u \in PageValues, t \in PageValues : Browse(u, t)
    \/ \E c \in Calls : BeginUpdatePageInfo(c)
    \/ \E c \in Calls, raised \in BOOLEAN : EndUpdatePageInfo(c, raised)

InfoSpec == Init /\ [][NextInfo]_vars

\* the same server configured with reaping disabled (session_ttl = 0) or on
InitAnyTtl == \E idle \in {0, session_ttl} : InitWith(max_sessions, idle)

TtlSpec == InitAnyTtl /\ [][NextShutdown]_vars

\* ================================================================ claims
Registered == Range(sessions)

\* create_session calls admitted and still launching their driver
InFlight == Cardinality({q \in Requests : InLaunch(q)})

Created(r) == op[r] = "create" /\ pc[r] = "done" /\ status[r] = 201
Rejected(r) == op[r] = "create" /\ pc[r] = "done" /\ error[r] = "CapacityExceeded"
CreateFailed(r) ==
    /\ op[r] = "create"
    /\ pc[r] = "done"
    /\ error[r] \in {"ProvisioningError", "LaunchFailed"}

\* C1: in every reachable state the Registry holds at most max_sessions
\* entries, whatever the interleaving of create, close and cleanup steps.
C1_RegistryWithinCapacity == Len(sessions) <= max_sessions

\* C2: a create_session call whose admission check runs while the registered
\* sessions plus the admitted creations still launching equal max_sessions
\* is rejected with CapacityExceeded.
C2_InFlightCreationsCount ==
    [][\A r \in Requests :
         (/\ pc[r] = "new"
          /\ op'[r] = "create"
          /\ Len(sessions) + InFlight = max_sessions)
         => (pc'[r] = "done" /\ error'[r] = "CapacityExceeded")]_vars

\* C3: when N > max_sessions create_session calls run against an empty
\* Registry, every launch succeeds and no session is closed, exactly
\* max_sessions calls return an id and the other N - max_sessions are
\* rejected with CapacityExceeded.
C3_BurstAdmitsExactlyMax ==
    (/\ MaxRequests > max_sessions
     /\ \A r \in Requests : Created(r) \/ Rejected(r)
     /\ \A s \in SessionIds : close_calls[s] = 0)
    => /\ Cardinality({r \in Requests : Created(r)}) = max_sessions
       /\ Cardinality({r \in Requests : Rejected(r)}) = MaxRequests - max_sessions

\* the failed creations have no Registry entry and were answered an error
FailedCreateLeavesNoEntry ==
    \A r \in Requests :
        CreateFailed(r) => (sid[r] \notin Registered /\ status[r] \in {429, 500})

C5_RegisteredIsInitialized ==
    \A s \in Registered : pw[s] /\ browser[s] /\ context[s]
\* a session is registered while another one is still being launched
C5_Witness ==
    /\ sessions # <<>>
    /\ \E r \in Requests :
         /\ pc[r] \in {"launch", "new_context"}
         /\ sid[r] \notin Registered
         /\ ~context[sid[r]]

\* a close request that got past the lookup
Acknowledged(r) ==
    op[r] = "close" /\ (pc[r] = "close" \/ (pc[r] = "done" /\ status[r] = 200))
\* C6: of the close requests for one session id, at most one gets past the
\* lookup and is acknowledged; every other one is answered NotFound, also
\* when the cleanup task is the one that closes the session.
C6_AtMostOneAck ==
    /\ \A s \in SessionIds :
         Cardinality({r \in Requests : Acknowledged(r) /\ sid[r] = s}) <= 1
    /\ \A r \in Requests :
         (op[r] = "close" /\ pc[r] = "done" /\ status[r] # 200)
         => (status[r] = 404 /\ error[r] = "NotFound")
\* a second close request arrives while the first one's teardown is running
C6_Witness ==
    \E r1, r2 \in Requests :
        /\ op[r1] = "close" /\ op[r2] = "close" /\ sid[r1] = sid[r2]
        /\ pc[r1] = "close"
        /\ pc[r2] = "done" /\ status[r2] = 404

\* the teardown calls of the close() that task th runs, and the step in
\* which that close() returns to its caller
AllSteps(th) == {PageStep(p) : p \in snap[th]} \cup Resources
CloseEnds(th) ==
    /\ pc[th] = "close"
    /\ \/ pc'[th] \in {"done", "sleep"}
       \/ (th = Reaper /\ pc'[th] = "close" /\ tc_idx' # tc_idx)
\* C7: whichever teardown calls of close() raise, close() makes every one
\* of them before it returns: each page of its snapshot, the context, the
\* browser and playwright.
C7_EveryStepAttempted ==
    [][\A th \in Threads : CloseEnds(th) => attempted[th] = AllSteps(th)]_vars
\* a session with two pages at its last teardown call: the first page's close,
\* the context's and the browser's raised, the second page was still closed
C7_Witness ==
    \E th \in Threads :
        /\ pc[th] = "close" /\ step[th] = PW
        /\ Cardinality(snap[th]) >= 2
        /\ {PageStep(1), CTX, BROWSER} \subseteq failed[th]
        /\ PageStep(2) \in attempted[th] \ failed[th]

\* C8: a close request for a registered session is accepted, removes the
\* session, and is answered 200 when the teardown has run, whichever
\* teardown calls raised.
C8_CloseSucceedsDespiteFailures ==
    [][\A r \in Requests :
         /\ (pc[r] = "new" /\ op'[r] = "close" /\ sid'[r] \in Registered)
            => (pc'[r] = "close" /\ sid'[r] \notin Range(sessions'))
         /\ (pc[r] = "close" /\ pc'[r] = "done")
            => (/\ status'[r] = 200
                /\ error'[r] = "none"
                /\ sid[r] \notin Range(sessions'))
      ]_vars
\* a close request answered 200 after every one of its teardown calls raised
C8_Witness ==
    \E r \in Requests :
        /\ op[r] = "close" /\ pc[r] = "done" /\ status[r] = 200
        /\ failed[r] = AllSteps(r)
        /\ snap[r] # {}
        /\ sid[r] \notin Registered

\* C9: a session the cleanup scan flagged and that a page operation used
\* (last_used updated) before the cleanup task reached it is not removed
\* by that pass: whenever the cleanup task removes a session, the session is
\* still idle with respect to the scan.
C9_UsedAfterFlagNotReaped ==
    [][\A s \in SessionIds :
         (/\ s \in Registered
          /\ s \notin Range(sessions')
          /\ pc'[Reaper] = "close"
          /\ sid'[Reaper] = s)
         => rnow' - last_used[s] > session_ttl]_vars

\* the step in which _cleanup_idle_sessions returns
PassEnds == pc[Reaper] = "close" /\ pc'[Reaper] = "sleep"
\* C10: when a cleanup pass ends, every session that was registered at its
\* scan and (not used since) is idle for more than session_ttl has been
\* removed from the Registry and closed.
C10_IdleSessionsReaped ==
    [][PassEnds =>
         \A s \in scanned :
             (rnow - last_used'[s] > session_ttl)
             => (s \notin Range(sessions') /\ close_calls'[s] >= 1)]_vars
\* the cleanup task is asleep again after a pass that closed two sessions
C10_Witness ==
    /\ pc[Reaper] = "sleep"
    /\ Cardinality({s \in SessionIds :
                      /\ close_calls[s] = 1
                      /\ s \notin Registered
                      /\ \A r \in Requests : ~(Acknowledged(r) /\ sid[r] = s)})
         >= 2

\* a task is inside BrowserSession.close() of session s, closing its pages
ClosingPages(s) ==
    \E th \in Threads : pc[th] = "close" /\ sid[th] = s /\ IsPage(step[th])

\* C11: once close() has begun on a session, a new_page call on it that was
\* already awaiting the driver fails and adds no page: neither the live
\* handles nor the page records of the session change.
C11_NoPageOnceClosing ==
    [][\A r \in Requests :
         (/\ pc[r] = "new_page"
          /\ pc'[r] = "done"
          /\ ClosingPages(sid[r]))
         => (/\ status'[r] >= 400
             /\ pages'[sid[r]] = pages[sid[r]]
             /\ info_pages'[sid[r]] = info_pages[sid[r]])]_vars

\* C12: when the cleanup task is cancelled while it is inside close() of a
\* session it has popped, that close() still makes every teardown call:
\* each page of its snapshot, the context, the browser and playwright.
C12_CancelledReaperFinishedTeardown ==
    (pc[Reaper] = "cancelled" /\ sid[Reaper] # 0)
    => attempted[Reaper] = AllSteps(Reaper)

\* the sessions that were registered once and have been popped
Removed == {s \in Allocated : close_calls[s] >= 1}

\* request r arrives in this step and names session s
Arrives(r, s) == pc[r] = "new" /\ pc'[r] # "new" /\ sid'[r] = s

\* C13: a session id that has been removed from the Registry (by a close
\* request, by the cleanup task or by close_all) is never registered again,
\* and every request that arrives for it afterwards (get_session, list_pages,
\* new_page, page info, navigation, close_page, close_session) is answered
\* 404 NotFound at once and changes nothing of the session.
C13_RemovedStaysNotFound ==
    [][\A s \in Removed :
         /\ s \notin Range(sessions')
         /\ \A r \in Requests :
              Arrives(r, s) => (/\ pc'[r] = "done"
                                /\ status'[r] = 404
                                /\ error'[r] = "NotFound"
                                /\ sessionVars' = sessionVars
                                /\ close_calls' = close_calls)]_vars
\* sessions removed by the cleanup task and by close_all, and a request that
\* arrived for one of them afterwards and was answered NotFound
C13_Witness ==
    /\ phase = "shutdown"
    /\ \E r \in Requests :
         /\ pc[r] = "done" /\ status[r] = 404 /\ op[r] = "new_page"
         /\ sid[r] \in Removed
         /\ \A q \in Requests : op[q] = "close" => sid[q] # sid[r]
    /\ pc[Main] = "close"
    /\ pc[Reaper] = "close"

PageOpEnds(r, what) == op[r] = what /\ pc[r] # "done" /\ pc'[r] = "done"

\* C15: when close_page on an existing page returns, the page is in neither
\* the live handles nor the page records of its session, also when closing
\* the live handle raised (the caller is then answered an error).
C15_ClosePageAlwaysRemoves ==
    [][\A r \in Requests :
         (/\ PageOpEnds(r, "close_page")
          /\ pc[r] = "page_close"
          /\ pid[r] \in pages[sid[r]])
         => (/\ pid[r] \notin pages'[sid[r]]
             /\ pid[r] \notin ListPagesResult(sid[r])')]_vars

\* C16: a new_page, close_page, navigation or page-info request that is
\* answered with success leaves last_used of its session at the time of
\* the operation.
C16_SuccessfulOpTouches ==
    [][\A r \in Requests :
         (/\ pc[r] \in {"new_page", "page_close", "title", "goto"}
          /\ pc'[r] = "done"
          /\ status'[r] \in {200, 201})
         => last_used'[sid[r]] = now]_vars

\* C17: with a clock that does not go backwards, last_used of every session
\* object is at least its created_at in every state, and no step decreases
\* last_used.
C17_LastUsedMonotone ==
    [][\A s \in SessionIds :
         /\ s \in Allocated
            => (/\ last_used[s] >= created_at[s]
                /\ last_used'[s] >= last_used[s]
                /\ created_at'[s] = created_at[s])
         /\ s \in Allocated' => last_used'[s] >= created_at'[s]
       ]_vars
\* a session created after the clock had advanced and used at a later time
C17_Witness ==
    \E s \in Allocated : created_at[s] >= 1 /\ last_used[s] > created_at[s]

\* close_page of page p of session s has been acknowledged
ClosePageAcked(s, p) ==
    \E q \in Requests :
        /\ op[q] = "close_page" /\ pc[q] = "done" /\ status[q] = 200
        /\ sid[q] = s /\ pid[q] = p

\* C18: once close_page(S, P) has been acknowledged, P is in neither the
\* live handles of S nor what list_pages(S) returns, and every page-info,
\* navigation (get_page) or close_page request that arrives for (S, P)
\* afterwards is answered 404 without reaching the driver.
C18_ClosedPageIsGone ==
    [][\A s \in SessionIds, p \in PageIds :
         /\ ClosePageAcked(s, p)'
            => (p \notin pages'[s] /\ p \notin ListPagesResult(s)')
         /\ ClosePageAcked(s, p)
            => \A r \in Requests :
                 (Arrives(r, s) /\ pid'[r] = p
                  /\ op'[r] \in {"page_info", "navigate", "close_page"})
                 => (pc'[r] = "done" /\ status'[r] = 404)]_vars
\* page P was closed (200) by request q; the navigation request that
\* arrived after q found no such page, in a session still registered
C18_Witness ==
    \E s \in Registered, p \in PageIds, q, r \in Requests :
        /\ q < r
        /\ op[q] = "close_page" /\ pc[q] = "done" /\ status[q] = 200
        /\ sid[q] = s /\ pid[q] = p
        /\ op[r] = "navigate" /\ sid[r] = s /\ pid[r] = p
        /\ pc[r] = "done" /\ status[r] = 404 /\ error[r] = "PageNotFound"

\* C19: a navigation (get_page), close_page or page-info request for a
\* registered session and a page id that is not among its live handles is
\* answered 404 PageNotFound in the step it arrives in, without awaiting the
\* driver, and leaves the session as it was: live handles, page records and
\* last_used are unchanged.
C19_UnknownPageChangesNothing ==
    [][\A r \in Requests, s \in Registered :
         (/\ Arrives(r, s)
          /\ op'[r] \in {"navigate", "close_page", "page_info"}
          /\ pid'[r] \notin pages[s])
         => (/\ pc'[r] = "done"
             /\ status'[r] = 404
             /\ error'[r] = "PageNotFound"
             /\ sessionVars' = sessionVars
             /\ sessions' = sessions)]_vars
\* a session with one page, used at time 0, after a close_page for another
\* page id at a later time was answered PageNotFound
C19_Witness ==
    \E s \in Registered, q, r \in Requests :
        /\ q < r
        /\ op[q] = "new_page" /\ sid[q] = s /\ status[q] = 201
        /\ op[r] = "close_page" /\ sid[r] = s /\ pid[r] # pid[q]
        /\ pc[r] = "done" /\ status[r] = 404 /\ error[r] = "PageNotFound"
        /\ pages[s] = {pid[q]} /\ info_pages[s] = {pid[q]}
        /\ now > last_used[s]

\* the step in which close_all returns
CloseAllEnds == phase # "stopped" /\ phase' = "stopped"

\* C20: close_all returns normally also when sessions it listed were popped
\* by another task before it reached them: when it returns, none of the
\* sessions it listed is registered and close() has been called on each of
\* them, by close_all or by the task that popped it.
C20_CloseAllToleratesMissing ==
    [][CloseAllEnds =>
         /\ pc'[Main] = "stopped"
         /\ \A i \in 1..Len(session_ids') :
              /\ session_ids'[i] \notin Range(sessions')
              /\ close_calls'[session_ids'[i]] >= 1]_vars
\* close_all listed three sessions and has returned: while it was closing
\* the first, the cleanup task popped the second; close_all skipped that one
\* and closed the third
C20_Witness ==
    /\ phase = "stopped"
    /\ Len(session_ids) = 3
    /\ pc[Reaper] = "cancelled"
    /\ sid[Reaper] = session_ids[2]
    /\ \A i \in 1..3 : close_calls[session_ids[i]] = 1
    /\ pw[session_ids[3]]

\* ---------------------------------------------------------------- C21
\* the sessions a step removes from the Registry
RemovedNow == Range(sessions) \ Range(sessions')

\* s was removed by close_session called for it by the DELETE handler of a
\* request or by close_all
ExplicitlyClosed(s) ==
    \E th \in Requests \cup {Main} :
        /\ pc[th] # "close" \/ sid[th] # s
        /\ pc'[th] = "close"
        /\ sid'[th] = s
        /\ th \in Requests => op'[th] = "close"

\* C21: with session_ttl = 0 start_cleanup_task starts no cleanup task (the
\* Reaper never leaves "not_started"), and every session that leaves the
\* Registry leaves it in a step of an explicit close_session or of
\* close_all, however long it has been idle.
C21_NoReapingWhenDisabled ==
    [][ttl = 0 =>
         /\ pc'[Reaper] = "not_started"
         /\ \A s \in RemovedNow : ExplicitlyClosed(s)]_vars

\* reaping disabled, the server is up and a registered session has been
\* idle for longer than any enabled TTL of the model would allow
C21_Witness ==
    /\ ttl = 0
    /\ phase = "serving"
    /\ \E s \in Range(sessions) : now - last_used[s] > session_ttl

\* ---------------------------------------------------------------- C22
\* C22: a create_session call makes at most one ensure_binary() call and at
\* most one chromium.launch() call; a launch call that raised is answered
\* with the error (500) at once, and a request that has been answered makes
\* no further call.
C22_ProvisionAndLaunchOnce ==
    [][\A r \in Requests :
         /\ ensure_calls'[r] <= 1
         /\ launch_calls'[r] <= 1
         /\ error'[r] = "LaunchFailed" => pc'[r] = "done" /\ status'[r] = 500
         /\ pc[r] = "done" => /\ ensure_calls'[r] = ensure_calls[r]
                              /\ launch_calls'[r] = launch_calls[r]]_vars

\* chromium.launch() of a create request raised: the request was answered 500
\* after one ensure_binary() call and one launch call, with no browser set
C22_Witness ==
    \E r \in Requests :
        /\ op[r] = "create"
        /\ error[r] = "LaunchFailed"
        /\ status[r] = 500
        /\ ensure_calls[r] = 1
        /\ launch_calls[r] = 1
        /\ pw[sid[r]]
        /\ ~browser[sid[r]]

\* ---------------------------------------------------------------- C23
\* the step is one of the close() call th was already in
SameClose(th) == pc[th] = "close" /\ pc'[th] = "close" /\ sid'[th] = sid[th]

\* the page.close() calls for the pages close() found open when it started
SnapshotPageSteps(th) == {PageStep(p) : p \in snap[th]}

\* C23: close() makes its teardown calls in a fixed order.  The call it is
\* awaiting is of the latest kind among the calls made so far; when that
\* call is for the context, the browser or playwright, every page of its
\* snapshot has had its close() call; when it is for the browser or
\* playwright, the context (if set) has had its call; when it is for
\* playwright, the browser (if set) has had its call.  Within one close()
\* no call is undone or made twice and the kind of call never goes back.
C23_TeardownInOrder ==
    [][\A th \in Threads :
         /\ pc'[th] = "close" /\ step'[th] # DONE =>
              /\ step'[th] \in attempted'[th]
              /\ \A old \in attempted'[th] : Rank(old) <= Rank(step'[th])
              /\ Rank(step'[th]) >= 1 =>
                    SnapshotPageSteps(th)' \subseteq attempted'[th]
              /\ Rank(step'[th]) >= 2 /\ context'[sid'[th]] =>
                    CTX \in attempted'[th]
              /\ Rank(step'[th]) >= 3 /\ browser'[sid'[th]] =>
                    BROWSER \in attempted'[th]
         /\ SameClose(th) =>
              /\ attempted[th] \subseteq attempted'[th]
              /\ step'[th] # step[th] => step'[th] \notin attempted[th]
              /\ Rank(step[th]) <= Rank(step'[th])]_vars

\* a close() with two pages in its snapshot is awaiting browser.close():
\* both pages and the context have had their calls, playwright has not
C23_Witness ==
    \E th \in Threads :
        /\ pc[th] = "close"
        /\ step[th] = BROWSER
        /\ Cardinality(snap[th]) = 2
        /\ attempted[th] = SnapshotPageSteps(th) \cup {CTX, BROWSER}

\* ---------------------------------------------------------------- C24
\* the Registry at one instant: its sessions in order, each with its pages
RegistryContents ==
    [i \in DOMAIN sessions |-> <<sessions[i], info_pages[sessions[i]]>>]

\* request r is answered by list_sessions in this step
Lists(r) == op[r] # "list" /\ op'[r] = "list"

\* C24: what list_sessions returns is the Registry as it is at the one
\* instant of the call: the sessions registered then, each with its page
\* records of then, whatever creations, closes and cleanup passes are in
\* progress; the call itself changes neither.
C24_ListIsSnapshot ==
    [][\A r \in Requests :
         Lists(r) => /\ listing'[r] = RegistryContents
                     /\ RegistryContents' = RegistryContents]_vars

\* a listing taken while a creation that arrived before it was (and still
\* is) in flight: it holds the one session registered then, not the other
C24_Witness ==
    \E r \in Requests :
        /\ op[r] = "list"
        /\ Len(listing[r]) = 1
        /\ \E q \in Requests : q < r /\ InLaunch(q) /\ sid[q] # listing[r][1][1]

\* ---------------------------------------------------------------- C25
\* version a is strictly newer than b: they differ first at a part where a
\* is larger, or a continues b
NewerThan(a, b) ==
    \/ \E i \in 1..Len(a) :
         /\ i <= Len(b)
         /\ a[i] > b[i]
         /\ \A j \in 1..(i - 1) : a[j] = b[j]
    \/ Len(a) > Len(b) /\ \A j \in 1..Len(b) : a[j] = b[j]

\* the marker file holds a version (dot-separated numbers, white space
\* around it ignored) that is strictly newer than the bundled one, and the
\* binary of that version is in the cache
MarkerUsable ==
    LET marker == cache.latest_version
        stored == Strip(marker.text)
    IN  /\ marker.state = "file"
        /\ stored # <<>>
        /\ \A i \in 1..Len(Split(stored)) : Parses(Split(stored)[i])
        /\ NewerThan(_version_tuple(stored), <<142, 0, 7444, 175>>)
        /\ stored \in cache.binaries

\* C25: get_effective_version returns the version stored in the
\* latest_version marker when that version is strictly newer than
\* CHROMIUM_VERSION and its binary exists in the cache, and CHROMIUM_VERSION
\* in every other case: no marker, unreadable or malformed marker, an older
\* or equal version, a newer version without its binary.
C25_EffectiveVersion ==
    ret.version # NoVersion =>
        ret.version = IF MarkerUsable THEN Strip(cache.latest_version.text)
                      ELSE CHROMIUM_VERSION

\* the marker names 142.0.7444.176, its binary is cached, and the call
\* returned that version
C25_Witness ==
    /\ Strip(cache.latest_version.text) = Render(<<142, 0, 7444, 176>>)
    /\ ret.version = Render(<<142, 0, 7444, 176>>)

\* ---------------------------------------------------------------- C26
\* the variable is set to a non-empty value
IsSet(name) == environ[name].set /\ environ[name].val # <<>>

\* CLOAKBROWSER_AUTO_UPDATE spells "false", each letter in either case
SaysFalse ==
    LET v == environ["CLOAKBROWSER_AUTO_UPDATE"] IN
    /\ v.set
    /\ Len(v.val) = 5
    /\ v.val[1] \in {"f", "F"}
    /\ v.val[2] \in {"a", "A"}
    /\ v.val[3] \in {"l", "L"}
    /\ v.val[4] \in {"s", "S"}
    /\ v.val[5] \in {"e", "E"}

UpdatesOff ==
    \/ SaysFalse
    \/ IsSet("CLOAKBROWSER_BINARY_PATH")
    \/ IsSet("CLOAKBROWSER_DOWNLOAD_URL")

\* the time of the last update check is on record
Recorded ==
    /\ cache.last_update_check.state = "file"
    /\ Parses(cache.last_update_check.text)
RecordAge == now - Value(cache.last_update_check.text)

\* C26: _should_check_for_update returns False when CLOAKBROWSER_AUTO_UPDATE
\* is "false" in any letter case, when a local binary override is set and
\* when a custom download URL is set; otherwise False when the recorded
\* last check is less than UPDATE_CHECK_INTERVAL (3600 s) old, and True when
\* the record is older than that or there is none.
C26_ShouldCheckForUpdate ==
    ret.check # NoAnswer =>
        /\ UpdatesOff => ret.check = "False"
        /\ ~UpdatesOff /\ Recorded /\ RecordAge < 3600 => ret.check = "False"
        /\ ~UpdatesOff /\ Recorded /\ RecordAge > 3600 => ret.check = "True"
        /\ ~UpdatesOff /\ cache.last_update_check.state = "absent"
             => ret.check = "True"

\* CLOAKBROWSER_AUTO_UPDATE=FALSE with no check on record: the answer was
\* False
C26_Witness ==
    /\ environ["CLOAKBROWSER_AUTO_UPDATE"] = Set(<<"F", "A", "L", "S", "E">>)
    /\ ~IsSet("CLOAKBROWSER_BINARY_PATH")
    /\ ~IsSet("CLOAKBROWSER_DOWNLOAD_URL")
    /\ cache.last_update_check.state = "absent"
    /\ ret.check = "False"

\* ---------------------------------------------------------------- C27
\* task th is suspended inside a driver operation: a launch call of
\* initialize, a teardown call of close(), a page being created or closed
InDriverOp(th) ==
    \/ pc[th] \in {"pw_start", "launch", "new_context"}
    \/ pc[th] = "close" /\ step[th] # DONE
    \/ pc[th] \in {"new_page", "page_close"}

\* C27: no task is inside a driver operation while it holds the Registry
\* lock: every task suspended in a launch call, a teardown call or a page
\* create/close is not the holder of the lock, and no create request called
\* ensure_binary() while it held the lock.  This covers create_session,
\* close_session, close_all and the cleanup task.
C27_NoDriverOpUnderLock ==
    /\ \A th \in Threads : InDriverOp(th) => lock # th
    /\ held_at_provision = {}

\* close_all and the cleanup task are each inside a teardown call and a
\* create request is inside a launch call, after its ensure_binary() call
C27_Witness ==
    /\ pc[Main] = "close" /\ step[Main] # DONE
    /\ pc[Reaper] = "close" /\ step[Reaper] # DONE
    /\ \E r \in Requests : InLaunch(r) /\ ensure_calls[r] = 1

\* ---------------------------------------------------------------- C28
\* BrowserSession has no state field; the lifecycle state of a session is
\* read off the object: a close() call on it is in progress (Closing), has
\* attempted all its steps (Closed), or none was made and initialize has
\* set the three handles (Ready) or not (Initializing)
ClosingBy(s) ==
    {th \in Threads : /\ pc[th] \in {"close", "cancelled"}
                      /\ sid[th] = s
                      /\ step[th] \notin {START, DONE}}

\* 0: no such object, 1: Initializing, 2: Ready, 3: Closing, 4: Closed
LifeRank(s) ==
    IF created_at[s] = -1 THEN 0
    ELSE IF ClosingBy(s) # {} THEN 3
    ELSE IF close_calls[s] > 0 THEN 4
    ELSE IF pw[s] /\ browser[s] /\ context[s] THEN 2
    ELSE 1

\* C28: a session only moves Initializing -> Ready -> Closing -> Closed: no
\* step takes it back or over a state, Closed is never left, and a session
\* in the Registry is Ready (in particular never Initializing).
C28_LifecycleForward ==
    [][\A s \in SessionIds :
         /\ LifeRank(s)' >= LifeRank(s)
         /\ LifeRank(s)' <= LifeRank(s) + 1
         /\ LifeRank(s) = 4 => LifeRank(s)' = 4
         /\ s \in Range(sessions') => LifeRank(s)' = 2]_vars

\* one session is Closed, one is Closing and one is Initializing
C28_Witness ==
    \E a, b, c \in SessionIds :
        /\ LifeRank(a) = 4
        /\ LifeRank(b) = 3
        /\ LifeRank(c) = 1
        /\ \E r \in Requests : InLaunch(r) /\ sid[r] = c

\* ---------------------------------------------------------------- C29
\* C29: a Registry entry is never replaced in place: a key that is in the
\* Registry before and after a step maps to the same session object, and
\* create_session inserts only under a key that is not in the Registry.
C29_EntryNeverReplaced ==
    [][\A k \in Keys :
         /\ _sessions[k] # NoObject /\ _sessions'[k] # NoObject
              => _sessions'[k] = _sessions[k]
         /\ (\E c \in Calls : /\ creating[c].at = "initialize"
                              /\ creating'[c].at = "returned"
                              /\ creating[c].key = k)
              => _sessions[k] = NoObject]_vars

\* ---------------------------------------------------------------- C30
\* C30: new_page never returns a page id that is already in the session: a
\* key of _pages keeps its page handle until it is deleted, also with
\* several new_page calls in flight.
C30_PageIdFresh ==
    [][\A k \in Keys :
         /\ _pages[k] # NoObject /\ _pages'[k] # NoObject
              => _pages'[k] = _pages[k]
         /\ (\E c \in Calls : /\ paging[c].at = "context.new_page"
                              /\ paging'[c] = At("returned", k))
              => _pages[k] = NoObject]_vars

\* ---------------------------------------------------------------- C31
\* create request r is turned away by the capacity check in this step
RejectedNow(r) == pc[r] = "new" /\ error'[r] = "CapacityExceeded"

\* create request r inserts its session into the Registry in this step
InsertsNow(r) ==
    /\ InLaunch(r)
    /\ sid[r] \notin Range(sessions)
    /\ sid[r] \in Range(sessions')

\* C31: a create_session call turned away at capacity has no side effect:
\* it makes no ensure_binary() and no launch call, constructs no session and
\* leaves the Registry as it is.  For an admitted call the order is capacity
\* check, ensure_binary(), chromium.launch(), insertion: the launch call is
\* made only after the ensure_binary() call of an admitted request, and the
\* insertion only after the launch call.
C31_RejectedCreateHasNoEffect ==
    [][\A r \in Requests :
         /\ RejectedNow(r) =>
              /\ sessions' = sessions
              /\ sessionVars' = sessionVars
              /\ sid'[r] = sid[r]
         /\ error'[r] = "CapacityExceeded" =>
              ensure_calls'[r] = 0 /\ launch_calls'[r] = 0
         /\ ensure_calls'[r] > 0 => sid'[r] # 0
         /\ launch_calls'[r] > launch_calls[r] =>
              ensure_calls[r] = 1 /\ sid[r] \notin Range(sessions')
         /\ InsertsNow(r) => ensure_calls[r] = 1 /\ launch_calls[r] = 1]_vars

\* one create request registered its session after one ensure_binary() and
\* one launch call; a later one was turned away at capacity and made none
C31_Witness ==
    \E r, q \in Requests :
        /\ status[r] = 201
        /\ sid[r] \in Range(sessions)
        /\ ensure_calls[r] = 1 /\ launch_calls[r] = 1
        /\ error[q] = "CapacityExceeded"
        /\ ensure_calls[q] = 0 /\ launch_calls[q] = 0 /\ sid[q] = 0

\* ---------------------------------------------------------------- C32
\* the cleanup tasks that are running their loop
ActiveLoops == {k \in Starts : cleanup_tasks[k].at \in {"sleep", "pass"}}

\* C32: at most one cleanup loop is active at any time, also when
\* start_cleanup_task is called more than once, and once close_all has run
\* no loop begins another scan.
C32_OneReaperLoop ==
    [][/\ Cardinality(ActiveLoops') <= 1
       /\ shut => \A k \in Starts :
                    cleanup_tasks'[k].scans = cleanup_tasks[k].scans]_vars

\* ---------------------------------------------------------------- C33
\* call c of update_page_info copies the url / returns in this step
CopiesUrl(c) == refreshing[c] = Idle /\ refreshing'[c].at = "page.title"
ReturnsNow(c) == refreshing[c].at = "page.title" /\ refreshing'[c].at # "page.title"

\* C33: update_page_info on an existing page overwrites the record's url
\* with the url of the live handle and, when it returns, has set last_used
\* to the time of then; it always returns normally, and when page.title()
\* raised the record keeps the title it had, otherwise it has the title of
\* the handle.
C33_RefreshPageInfo ==
    [][\A c \in Calls :
         /\ CopiesUrl(c) => info'.url = page.url
         /\ ReturnsNow(c) =>
              /\ refreshing'[c].at = "returned"
              /\ info'.last_used = wall
              /\ info'.url = info.url
              /\ refreshing'[c].key = 1 => info'.title = info.title
              /\ refreshing'[c].key = 0 => info'.title = page.title]_vars

\* a call returned after page.title() raised, later than the record got a
\* title: the record shows the url the handle had, the earlier title (not
\* the handle's) and the time of the return
C33_Witness ==
    \E c \in Calls :
        /\ refreshing[c] = At("returned", 1)
        /\ info.title # 0
        /\ info.title # page.title
        /\ info.url = page.url
        /\ info.last_used = wall
        /\ wall > 0

\* ---------------------------------------------------------------- C34
\* the tasks that start a close() call on s in this step
StartsClose(s) ==
    {th \in Threads : /\ pc'[th] = "close"
                      /\ sid'[th] = s
                      /\ pc[th] # "close" \/ sid[th] # s}

\* C34: close() runs at most once for each session, whatever close
\* requests, cleanup passes and close_all are under way: a close() call on
\* a session starts only in the step that takes the session out of the
\* Registry, by one task, and never on a session that had one before.
C34_CloseAtMostOnce ==
    [][\A s \in SessionIds :
         /\ close_calls'[s] <= 1
         /\ close_calls'[s] - close_calls[s] = Cardinality(StartsClose(s))
         /\ StartsClose(s) # {} =>
              s \in Range(sessions) /\ s \notin Range(sessions')]_vars

\* a session that close_all had on its list was closed by a DELETE request
\* before close_all came to it: it had one close() call
C34_Witness ==
    \E s \in SessionIds, r \in Requests :
        /\ op[r] = "close" /\ sid[r] = s /\ status[r] = 200
        /\ s \in Range(session_ids)
        /\ phase = "stopped"
        /\ close_calls[s] = 1

\* ---------------------------------------------------------------- C35
\* session s has a driver runtime or a browser that was started and that no
\* close() call will stop: no close() was ever called on it, or the one
\* that was called was cut by the cancellation of the cleanup task
LiveDriver(s) ==
    /\ pw[s] \/ browser[s]
    /\ \/ close_calls[s] = 0
       \/ /\ pc[Reaper] = "cancelled"
          /\ sid[Reaper] = s
          /\ PW \notin attempted[Reaper]

\* C35: after close_all has returned the Registry is empty and no session
\* has a live driver process, also when a create_session call was past its
\* admission check, awaiting the launch, while close_all ran.
C35_NothingLeftAfterCloseAll ==
    phase = "stopped"
    => (sessions = <<>> /\ \A s \in SessionIds : ~LiveDriver(s))

\* ---------------------------------------------------------------- C36
\* C36: a create_session call that fails after a part of the launch
\* succeeded leaves nothing running: the driver runtime and the browser it
\* had started are stopped by the time the error reaches the caller.
C36_FailedCreateLeavesNothingRunning ==
    \A r \in Requests :
        (op[r] = "create" /\ pc[r] = "done" /\ error[r] = "LaunchFailed")
        => (~pw[sid[r]] /\ ~browser[sid[r]])

\* ---------------------------------------------------------------- C37
\* C37: for every session on which close() has not started, the page ids of
\* the live handles (_pages) are the page ids of the page records
\* (info.pages), whatever new_page, close_page and update_page_info calls
\* have run or are suspended on it, failed close_page calls included.
C37_HandlesMatchRecords ==
    \A s \in SessionIds : close_calls[s] = 0 => pages[s] = info_pages[s]

\* on a session nobody closes, a close_page call failed in the driver and
\* left its page, and a page info call on the session has been answered
C37_Witness ==
    \E s \in SessionIds, r, q \in Requests :
        /\ close_calls[s] = 0
        /\ pages[s] # {}
        /\ op[r] = "close_page" /\ sid[r] = s /\ pc[r] = "done"
        /\ error[r] = "DriverError" /\ pid[r] \in pages[s]
        /\ op[q] = "page_info" /\ sid[q] = s /\ status[q] = 200

\* ---------------------------------------------------------------- C38
\* the positions of the cleanup pass's list after the current one whose
\* session is still registered
StillFlagged ==
    {i \in (tc_idx + 1)..Len(to_close) : to_close[i] \in Range(sessions)}

\* the cleanup task leaves the close() call it is in
ReaperLeavesClose ==
    /\ pc[Reaper] = "close"
    /\ pc'[Reaper] # "close" \/ sid'[Reaper] # sid[Reaper]

\* C38: a teardown failure while the cleanup pass closes one idle session
\* stops neither the pass nor the loop: when that close() ends the pass goes
\* on to the next session flagged by the same scan that is still
\* registered, removing it and calling close() on it, and after the last
\* one the loop sleeps until its next scan; when the pass ends every
\* session the scan had flagged is out of the Registry and has had its
\* close() call.
C38_PassSurvivesTeardownFailure ==
    [][(ReaperLeavesClose /\ failed[Reaper] # {})
       => /\ pc'[Reaper] \in {"close", "sleep"}
          /\ StillFlagged # {} =>
               LET s == to_close[Min(StillFlagged)] IN
               /\ pc'[Reaper] = "close"
               /\ sid'[Reaper] = s
               /\ s \notin Range(sessions')
               /\ close_calls'[s] = 1
          /\ StillFlagged = {} =>
               /\ pc'[Reaper] = "sleep"
               /\ \A s \in Range(to_close) :
                    s \notin Range(sessions') /\ close_calls'[s] = 1]_vars

\* the cleanup task is at the last teardown call of the first session of
\* its pass, an earlier call of that close() has failed, and the second
\* session the scan flagged is still registered
C38_Witness ==
    /\ pc[Reaper] = "close"
    /\ failed[Reaper] # {}
    /\ step[Reaper] = PW
    /\ StillFlagged # {}

\* ---------------------------------------------------------------- C39
\* the positions of the answered list that hold a release whose tag begins
\* with "chromium-v" and that is not a draft
GoodReleases ==
    {i \in 1..Len(response.releases) :
        LET rel == response.releases[i] IN
        /\ ~rel.draft
        /\ Len(rel.tag) >= 2
        /\ rel.tag[1] = Chromium
        /\ rel.tag[2] = V}

\* C39: _get_latest_chromium_version returns the tag, without its
\* "chromium-v" prefix, of the first release of the answered list whose tag
\* starts with "chromium-v" and that is not a draft, passing over drafts
\* and other tags; it returns None when the list has no such release and
\* when the request fails.
C39_LatestChromiumVersion ==
    ret.latest.returned
    => IF ~response.ok \/ GoodReleases = {}
       THEN ret.latest.none
       ELSE /\ ~ret.latest.none
            /\ ret.latest.text =
                 Tail(Tail(response.releases[Min(GoodReleases)].tag))

\* the answer began with a draft of chromium-v2 and a release tagged v1,
\* followed by chromium-v1: the call returned "1"
C39_Witness ==
    /\ ret.latest.returned
    /\ response.ok
    /\ Len(response.releases) = 3
    /\ response.releases[1] = [tag |-> <<Chromium, V, Num(2)>>, draft |-> TRUE]
    /\ response.releases[2] = [tag |-> <<V, Num(1)>>, draft |-> FALSE]
    /\ response.releases[3] = [tag |-> <<Chromium, V, Num(1)>>, draft |-> FALSE]
    /\ ret.latest = Returned(<<Num(1)>>)

====
